---- MODULE Spec2Model ----
(***************************************************************************)
(* csvmd: conversion of CSV text to a Markdown table.                      *)
(*                                                                         *)
(* Text is modelled as a sequence of one-character strings.  The four      *)
(* public entry points of src/src/lib.rs are modelled as one state machine *)
(* each, stepping record by record (and chunk by chunk), and are called    *)
(* one after the other on the same input and Config.                       *)
(***************************************************************************)
EXTENDS Integers, Sequences, FiniteSets, TLC

\* ------------------------------------------------------------------ bounds

\* Longest input (in bytes) the sources hold.
MaxLen == 4

\* Largest chunk_size handed to csv_to_markdown_chunked_streaming.
MaxChunk == 2

\* Longest field handed to escape_markdown_cell on its own.
MaxFieldLen == 3

\* Longest record (in fields) handed to the row writers on their own.
MaxRowLen == 2

\* Longest field of a record handed to the row writers on their own.
MaxCellLen == 1

\* Largest width handed to the row writers on their own.
MaxWidth == 3

\* Longest source read with a failing call or a byte that is no UTF-8
MaxFaultLen == 3

\* Highest number of the sink call that fails
MaxSinkFault == 6

\* Longest line handed to count_csv_columns on its own
MaxLineLen == 5

\* Longest source of a call run at the same time as another
MaxConcurrentLen == 2

\* Longest source handed over at a position other than its start
MaxPositionedLen == 3

\* Longest source read in chunks of two sizes side by side
MaxSplitLen == 3

\* Longest content of stdin read through InteractiveStdin
MaxStdinLen == 2

\* Longest buf handed to InteractiveStdin's read
MaxBufLen == 2

\* Most read calls made on one InteractiveStdin
MaxReads == 3

\* -------------------------------------------------------------- characters

LF == "\n"

CR == "\r"

PIPE == "|"

QUOTE == "\""

BACKSLASH == "\\"

SPACE == " "

\* A byte that occurs in no UTF-8 text (0xFF), and U+FFFD, the character
\* String::from_utf8_lossy puts in its place
BAD == "0xFF"

REPLACEMENT == "U+FFFD"

\* The bytes the modelled sources are made of: a plain byte, the default
\* delimiter, the quote and the line feed.
Alphabet == {"a", ",", QUOTE, LF}

\* All texts over alphabet S of length at most n.
Texts(S, n) == UNION {[1..k -> S] : k \in 0..n}

\* ------------------------------------------------------------- min and max

Min(a, b) == IF a < b THEN a ELSE b

\* usize::max, as used in max_cols.max(..)
Max(a, b) == IF a < b THEN b ELSE a

\* ------------------------------------------------------------------ Config

HeaderAlignment == {"Left", "Center", "Right"}

Config == [has_headers : BOOLEAN, flexible : BOOLEAN, delimiter : {","},
           header_alignment : HeaderAlignment]

\* ------------------------------------------------------------ Cell escaper

\* str::replace(from, to) for a one-character pattern: every occurrence of
\* from, left to right, is replaced by the text to.
RECURSIVE replace(_, _, _)
replace(s, from, to) ==
    IF s = <<>> THEN <<>>
    ELSE (IF Head(s) = from THEN to ELSE <<Head(s)>>) \o replace(Tail(s), from, to)

\* Mutant of escape_markdown_cell: the carriage returns are left in.
escape_keeping_cr(field) ==
    replace(replace(field, PIPE, <<BACKSLASH, PIPE>>), LF, <<"<", "b", "r", ">">>)

\* Mutant of escape_markdown_cell: pipes and line feeds are both dropped.
escape_dropping(field) ==
    replace(replace(replace(field, PIPE, <<>>), LF, <<>>), CR, <<>>)

\* The three replacements, applied one after the other to the whole text.
escape_markdown_cell(field) ==
    replace(replace(replace(field, PIPE, <<BACKSLASH, PIPE>>),
                    LF, <<"<", "b", "r", ">">>),
            CR, <<>>)

\* record.iter().map(escape_markdown_cell).collect()
escape_row(record) == [i \in 1..Len(record) |-> escape_markdown_cell(record[i])]

\* ------------------------------------------------------------ Row renderer

\* row.get(i).map(String::as_str).unwrap_or("") with i counted from 0
cell_at(row, i) == IF i + 1 <= Len(row) THEN row[i + 1] ELSE <<>>

\* The loop `for i in 0..max_cols { write!(output, " {} |", cell) }` from
\* index i on.
RECURSIVE row_cells(_, _, _)
row_cells(row, i, max_cols) ==
    IF i >= max_cols THEN <<>>
    ELSE <<SPACE>> \o cell_at(row, i) \o <<SPACE, PIPE>> \o row_cells(row, i + 1, max_cols)

\* Mutant of write_table_row: the loop runs over the row's own cells, so a
\* short row gets no padding cell.
write_table_row_unpadded(output, row, max_cols) ==
    ((output \o <<PIPE>>) \o row_cells(row, 0, Len(row))) \o <<LF>>

\* Appends one table row to the string buffer.
write_table_row(output, row, max_cols) ==
    ((output \o <<PIPE>>) \o row_cells(row, 0, max_cols)) \o <<LF>>


\* Mutant of separator: the markers of Center and Right are exchanged.
separator_swapped(alignment) ==
    CASE alignment = "Left" -> <<SPACE, "-", "-", "-", SPACE, PIPE>>
      [] alignment = "Right" -> <<SPACE, ":", "-", "-", "-", ":", SPACE, PIPE>>
      [] alignment = "Center" -> <<SPACE, "-", "-", "-", ":", SPACE, PIPE>>

\* The marker cell chosen by `match alignment`.
separator(alignment) ==
    CASE alignment = "Left" -> <<SPACE, "-", "-", "-", SPACE, PIPE>>
      [] alignment = "Center" -> <<SPACE, ":", "-", "-", "-", ":", SPACE, PIPE>>
      [] alignment = "Right" -> <<SPACE, "-", "-", "-", ":", SPACE, PIPE>>

\* The loop `for _ in 0..max_cols { push_str(separator) }`.
RECURSIVE separator_cells(_, _)
separator_cells(n, alignment) ==
    IF n <= 0 THEN <<>> ELSE separator(alignment) \o separator_cells(n - 1, alignment)

write_header_separator(output, max_cols, alignment) ==
    ((output \o <<PIPE>>) \o separator_cells(max_cols, alignment)) \o <<LF>>

\* ------------------------------------------------------------------- Sink
\* A writer takes the text of a row in pieces: write!(output, " {} |", cell)
\* hands the sink " ", the cell and " |" one after the other, each with
\* write_all, and write_all of an empty piece calls the sink not at all.

\* The pieces of `for i in 0..max_cols { write!(output, " {} |", cell)?; }`
RECURSIVE row_cell_writes(_, _, _)
row_cell_writes(row, i, max_cols) ==
    IF i >= max_cols THEN <<>>
    ELSE <<<<SPACE>>, cell_at(row, i), <<SPACE, PIPE>>>> \o row_cell_writes(row, i + 1, max_cols)

\* Mutant of table_row_writes: the loop runs over the row's own cells.
table_row_writes_own_width(row, max_cols) ==
    (<<<<PIPE>>>> \o row_cell_writes(row, 0, Len(row))) \o <<<<LF>>>>

\* The pieces write_table_row_to_writer hands to the sink, in order.
table_row_writes(row, max_cols) ==
    (<<<<PIPE>>>> \o row_cell_writes(row, 0, max_cols)) \o <<<<LF>>>>

\* The pieces write_header_separator_to_writer hands to the sink, in order.
header_separator_writes(max_cols, alignment) ==
    (<<<<PIPE>>>> \o [k \in 1..max_cols |-> separator(alignment)]) \o <<<<LF>>>>

\* Mutant of sink_write: the Err of a write is dropped (no `?`), and the
\* pieces after it are written.
RECURSIVE sink_write_carrying_on(_, _, _, _)
sink_write_carrying_on(output, pieces, calls, fault) ==
    IF pieces = <<>> THEN [output |-> output, calls |-> calls, failed |-> FALSE]
    ELSE IF Head(pieces) = <<>> THEN sink_write_carrying_on(output, Tail(pieces), calls, fault)
    ELSE IF calls + 1 = fault
    THEN sink_write_carrying_on(output, Tail(pieces), calls + 1, fault)
    ELSE sink_write_carrying_on(output \o Head(pieces), Tail(pieces), calls + 1, fault)

\* The pieces written to a sink that holds output and has been called calls
\* times, each write followed by `?`: the call numbered fault fails (0: none
\* does), nothing of its piece is written and no later piece is handed over.
\* Gives what the sink holds, the calls made so far, and whether one failed.
RECURSIVE sink_write(_, _, _, _)
sink_write(output, pieces, calls, fault) ==
    IF pieces = <<>> THEN [output |-> output, calls |-> calls, failed |-> FALSE]
    ELSE IF Head(pieces) = <<>> THEN sink_write(output, Tail(pieces), calls, fault)
    ELSE IF calls + 1 = fault
    THEN [output |-> output, calls |-> calls + 1, failed |-> TRUE]
    ELSE sink_write(output \o Head(pieces), Tail(pieces), calls + 1, fault)

\* Appends one table row to the writer, every write succeeding.
write_table_row_to_writer(output, row, max_cols) ==
    sink_write(output, table_row_writes(row, max_cols), 0, 0).output

\* Appends the header separator to the writer, every write succeeding.
write_header_separator_to_writer(output, max_cols, alignment) ==
    sink_write(output, header_separator_writes(max_cols, alignment), 0, 0).output


\* ----------------------------------------------------------- Record reader
\* The csv crate's reader as configured by ReaderBuilder::new()
\* .has_headers(false).flexible(config.flexible).delimiter(config.delimiter):
\* quote '"', doubled quotes on, no escape byte, no comment byte, terminator
\* CRLF (a carriage return or a line feed ends a record).

is_term(c) == c = CR \/ c = LF

\* One record read from bytes starting at index p (counted from 1), in parser
\* state st, with the fields completed so far and the field being read.
\* Gives [kind |-> "record", fields, next] or [kind |-> "end", next]; eof
\* tells that the end of the bytes was read while doing so.
RECURSIVE parse_record(_, _, _, _, _, _)
parse_record(bytes, p, st, fields, cur, delimiter) ==
    IF p > Len(bytes)
    THEN IF st = "StartRecord"
         THEN [kind |-> "end", fields |-> <<>>, next |-> p, eof |-> TRUE]
         ELSE [kind |-> "record", fields |-> Append(fields, cur), next |-> p, eof |-> TRUE]
    ELSE LET c == bytes[p] IN
      CASE st = "StartRecord" ->
             IF is_term(c)
             THEN parse_record(bytes, p + 1, "StartRecord", fields, cur, delimiter)
             ELSE parse_record(bytes, p, "StartField", fields, cur, delimiter)
        [] st = "StartField" ->
             IF c = QUOTE
             THEN parse_record(bytes, p + 1, "InQuotedField", fields, <<>>, delimiter)
             ELSE IF c = delimiter
             THEN parse_record(bytes, p + 1, "StartField", Append(fields, <<>>), <<>>, delimiter)
             ELSE IF is_term(c)
             THEN [kind |-> "record", fields |-> Append(fields, <<>>), next |-> p + 1,
                   eof |-> FALSE]
             ELSE parse_record(bytes, p + 1, "InField", fields, <<c>>, delimiter)
        [] st = "InField" ->
             IF c = delimiter
             THEN parse_record(bytes, p + 1, "StartField", Append(fields, cur), <<>>, delimiter)
             ELSE IF is_term(c)
             THEN [kind |-> "record", fields |-> Append(fields, cur), next |-> p + 1,
                   eof |-> FALSE]
             ELSE parse_record(bytes, p + 1, "InField", fields, Append(cur, c), delimiter)
        [] st = "InQuotedField" ->
             IF c = QUOTE
             THEN parse_record(bytes, p + 1, "InDoubleEscapedQuote", fields, cur, delimiter)
             ELSE parse_record(bytes, p + 1, "InQuotedField", fields, Append(cur, c), delimiter)
        [] st = "InDoubleEscapedQuote" ->
             IF c = QUOTE
             THEN parse_record(bytes, p + 1, "InQuotedField", fields, Append(cur, c), delimiter)
             ELSE IF c = delimiter
             THEN parse_record(bytes, p + 1, "StartField", Append(fields, cur), <<>>, delimiter)
             ELSE IF is_term(c)
             THEN [kind |-> "record", fields |-> Append(fields, cur), next |-> p + 1,
                   eof |-> FALSE]
             ELSE parse_record(bytes, p + 1, "InField", fields, Append(cur, c), delimiter)

\* A reader freshly built over a source positioned at byte index p: no record
\* read yet, so no field count to hold later records to (0 stands for None),
\* and the end of the source not seen.
new_reader(p) == [pos |-> p, first_field_count |-> 0, eof |-> FALSE]

\* StringRecord::from_byte_record: a record with a byte that is no UTF-8
is_utf8(fields) == \A k \in 1..Len(fields) : \A j \in 1..Len(fields[k]) : fields[k][j] # BAD

\* One step of reader.records(): the next item of the iterator over bytes.
\* "record" carries the fields, "end" is the iterator's None, "error" is
\* Err(UnequalLengths) (without flexible, a record whose field count differs
\* from the first record's) or Err(Utf8).  reads counts the bytes asked of
\* the underlying source, one more when its end is read for the first time.
next_record(bytes, rdr, config) ==
    LET r == parse_record(bytes, rdr.pos, "StartRecord", <<>>, <<>>, config.delimiter)
        reads == (r.next - rdr.pos) + (IF r.eof /\ ~rdr.eof THEN 1 ELSE 0)
        eof == rdr.eof \/ r.eof
    IN
    IF r.kind = "end"
    THEN [kind |-> "end", fields |-> <<>>, error |-> "none", reads |-> reads,
          rdr |-> [rdr EXCEPT !.pos = r.next, !.eof = eof]]
    ELSE IF ~config.flexible /\ rdr.first_field_count # 0
            /\ Len(r.fields) # rdr.first_field_count
    THEN [kind |-> "error", fields |-> <<>>, error |-> "UnequalLengths", reads |-> reads,
          rdr |-> [rdr EXCEPT !.pos = r.next, !.eof = eof]]
    ELSE LET counted == [pos |-> r.next,
                         first_field_count |-> IF rdr.first_field_count = 0
                                               THEN Len(r.fields)
                                               ELSE rdr.first_field_count,
                         eof |-> eof]
         IN IF is_utf8(r.fields)
            THEN [kind |-> "record", fields |-> r.fields, error |-> "none",
                  reads |-> reads, rdr |-> counted]
            ELSE [kind |-> "error", fields |-> <<>>, error |-> "Utf8",
                  reads |-> reads, rdr |-> counted]

\* Mutant of read_record: an Err item is skipped and the item after it is
\* given (as with filter_map(Result::ok)).
read_record_skipping(bytes, rdr, config, reads_before, fault) ==
    LET r == next_record(bytes, rdr, config) IN
    IF r.kind = "error" THEN next_record(bytes, r.rdr, config) ELSE r

\* The same step over a source whose read call numbered fault fails (0: none
\* does), reads_before calls having been made: the reader gives Err(Io) when
\* the failing call is among those the step makes.
read_record(bytes, rdr, config, reads_before, fault) ==
    LET r == next_record(bytes, rdr, config) IN
    IF fault > reads_before /\ fault <= reads_before + r.reads
    THEN [kind |-> "error", fields |-> <<>>, error |-> "Io",
          reads |-> fault - reads_before, rdr |-> rdr]
    ELSE r

\* ------------------------------------------------ Column estimator (chunked)

\* line.strip_suffix('\r') applied to a line that ended in a line feed
strip_cr(line) ==
    IF line # <<>> /\ line[Len(line)] = CR THEN SubSeq(line, 1, Len(line) - 1) ELSE line

\* str::lines(): the text split at line feeds; a carriage return right before
\* a line feed is part of the line ending; an unterminated last line is kept
\* as it is, and a line ending at the very end opens no further line.
RECURSIVE lines_from(_, _, _)
lines_from(s, i, cur) ==
    IF i > Len(s) THEN (IF cur = <<>> THEN <<>> ELSE <<cur>>)
    ELSE IF s[i] = LF THEN <<strip_cr(cur)>> \o lines_from(s, i + 1, <<>>)
    ELSE lines_from(s, i + 1, Append(cur, s[i]))

lines(s) == lines_from(s, 1, <<>>)

\* The loop of count_csv_columns from character index i (counted from 1) on.
RECURSIVE count_from(_, _, _, _, _)
count_from(line, i, in_quotes, count, delimiter) ==
    IF i > Len(line) THEN count
    ELSE IF line[i] = QUOTE
    THEN IF i + 1 <= Len(line) /\ line[i + 1] = QUOTE
         THEN count_from(line, i + 2, in_quotes, count, delimiter)
         ELSE count_from(line, i + 1, ~in_quotes, count, delimiter)
    ELSE IF line[i] = delimiter /\ ~in_quotes
    THEN count_from(line, i + 1, in_quotes, count + 1, delimiter)
    ELSE count_from(line, i + 1, in_quotes, count, delimiter)

\* Mutant of count_csv_columns: quotes are not looked at, every delimiter
\* counts.
count_csv_columns_every_delimiter(line, delimiter) ==
    1 + Cardinality({k \in 1..Len(line) : line[k] = delimiter})

count_csv_columns(line, delimiter) == count_from(line, 1, FALSE, 1, delimiter)

\* char::is_whitespace for the characters of the model
is_whitespace(c) == c \in {SPACE, LF, CR, "\t"}

\* partial_line.trim().is_empty()
trim_is_empty(s) == \A k \in 1..Len(s) : is_whitespace(s[k])

ends_with(s, c) == s # <<>> /\ s[Len(s)] = c

\* The loop `for line in complete_lines` on a running maximum.
RECURSIVE count_lines(_, _, _)
count_lines(ls, m, delimiter) ==
    IF ls = <<>> THEN m
    ELSE count_lines(Tail(ls),
                     IF Head(ls) # <<>> THEN Max(m, count_csv_columns(Head(ls), delimiter)) ELSE m,
                     delimiter)

\* String::from_utf8_lossy on a chunk: every byte that is no UTF-8 becomes
\* U+FFFD.
from_utf8_lossy(chunk) ==
    [k \in 1..Len(chunk) |-> IF chunk[k] = BAD THEN REPLACEMENT ELSE chunk[k]]

\* The body of the read loop after a chunk arrived: the chunk is put after
\* the carried partial line, the complete lines are counted, and the last
\* line is carried over when the content does not end in a line ending.
\* Gives the new [partial_line, max_cols].
process_chunk(partial, chunk, m, delimiter) ==
    LET full_content == partial \o from_utf8_lossy(chunk)
        ls == lines(full_content)
    IN IF ends_with(full_content, LF) \/ ends_with(full_content, CR)
       THEN [partial_line |-> partial, max_cols |-> count_lines(ls, m, delimiter)]
       ELSE IF Len(ls) > 1
       THEN [partial_line |-> ls[Len(ls)],
             max_cols |-> count_lines(SubSeq(ls, 1, Len(ls) - 1), m, delimiter)]
       ELSE [partial_line |-> full_content, max_cols |-> m]

\* `if !partial_line.trim().is_empty() { ... }` after the read loop
process_remaining(partial, m, delimiter) ==
    IF ~trim_is_empty(partial) THEN Max(m, count_csv_columns(partial, delimiter)) ELSE m

\* ------------------------------------------------------------------- state

VARIABLES
    input,        \* the bytes of the source handed to every entry point
    src_start,    \* the position the source is at when it is handed over
    config,       \* the Config handed to every entry point
    faults,       \* which call on the source, the sink or seek fails, if any
    pc,           \* where the running entry point stands ("idle": none runs)
    src_pos,      \* read position of the source (byte index, from 1)
    src_reads,    \* read calls made on the source by the running entry point
    rdr,          \* the csv reader: position in its bytes, first field count
    records,      \* csv_to_markdown: the escaped rows collected
    max_cols,     \* the running (then final) maximum column count
    i,            \* csv_to_markdown: index of the row to write next
    buffer,       \* csv_to_markdown_streaming: the input read to its end
    chunk_size,   \* csv_to_markdown_chunked_streaming: its chunk_size
    temp_file,    \* csv_to_markdown_chunked_streaming: the spill file's bytes
    partial_line, \* csv_to_markdown_chunked_streaming: the carried line
    first_row,    \* streaming entry points: no header separator written yet
    output,       \* the String being built, or the bytes written to the sink
    sink_calls,   \* write and flush calls made on the sink so far
    held,         \* the temporary resources the running entry point owns
    outcome,      \* per entry point: what it returned and what it emitted
    args,         \* a helper function applied on its own: its arguments
    ret           \* a helper function applied on its own: what it returned

\* The state of the entry points, and the state of a helper applied alone.
conversion == <<input, src_start, config, faults, pc, src_pos, src_reads, rdr, records, max_cols, i,
                buffer, chunk_size, temp_file, partial_line, first_row, output,
                sink_calls, held, outcome>>

helper == <<args, ret>>

vars == <<conversion, helper>>

\* The entry points, in the order they are called:
\* A csv_to_markdown, B csv_to_markdown_streaming,
\* C csv_to_markdown_two_pass_streaming, D csv_to_markdown_chunked_streaming.
Strategies == {"A", "B", "C", "D"}

\* What is kept of a call: the Result's variant, what made it an Err (a
\* record the reader refused, a failed call on the source, on the sink, or a
\* failed seek), what was emitted, the max_cols used, the calls made on the
\* sink and on the source, and whether the sink was flushed.
Pending == [status |-> "pending", cause |-> "none", output |-> <<>>, max_cols |-> 0,
            sink_calls |-> 0, src_reads |-> 0, flushed |-> FALSE]

\* The sources of the model: every text over Alphabet up to MaxLen bytes.
Inputs == Texts(Alphabet, MaxLen)

\* Every call on the source and on the sink succeeds, and so does seek.
NoFaults == [source |-> 0, sink |-> 0, seek |-> FALSE]

\* No helper is applied on its own.
NoHelper == [stage |-> 0]

\* The locals of an entry point before it is called and after it returned;
\* the source is handed to each entry point at the same position.
NoLocals ==
    /\ src_pos = src_start
    /\ src_reads = 0
    /\ rdr = new_reader(1)
    /\ records = <<>>
    /\ max_cols = 0
    /\ i = 0
    /\ buffer = <<>>
    /\ temp_file = <<>>
    /\ partial_line = <<>>
    /\ first_row = TRUE
    /\ output = <<>>
    /\ sink_calls = 0
    /\ held = {}

Init ==
    /\ input \in Inputs
    /\ src_start = 1
    /\ config \in Config
    /\ faults = NoFaults
    /\ pc = "idle"
    /\ outcome = [s \in Strategies |-> Pending]
    /\ chunk_size = 0
    /\ NoLocals
    /\ args = NoHelper
    /\ ret = NoHelper

\* impl From<csv::Error> for CsvMdError: every csv::Error, whatever its kind
\* (UnequalLengths, Utf8 or Io), becomes CsvMdError::Csv.
from_csv_error(error) == "Csv"

\* #[from] std::io::Error: the `?` on an io::Result gives CsvMdError::Io.
from_io_error == "Io"

\* What made the reader give an Err: a call on its source, or a record.
cause_of(error) == IF error = "Io" THEN "source" ELSE "record"

\* Mutant of drop_locals: the buffer and the temporary file outlive the call.
drop_locals_leaking(owned) == owned

\* The entry point's locals go out of scope: the Vec is freed, and the File
\* of tempfile() is closed, which deletes the unnamed file.
drop_locals(owned) == {}

\* An entry point returns.  What it emitted (the String returned, or the
\* bytes on the sink), the max_cols it used and the calls it made are kept;
\* its locals are dropped.
Exit(s, status, cause, emitted, calls, reads, flushed) ==
    /\ outcome' = [outcome EXCEPT ![s] = [status |-> status, cause |-> cause,
                                           output |-> emitted, max_cols |-> max_cols,
                                           sink_calls |-> calls, src_reads |-> reads,
                                           flushed |-> flushed]]
    /\ pc' = "idle"
    /\ src_pos' = src_start
    /\ src_reads' = 0
    /\ rdr' = new_reader(1)
    /\ records' = <<>>
    /\ max_cols' = 0
    /\ i' = 0
    /\ buffer' = <<>>
    /\ temp_file' = <<>>
    /\ partial_line' = <<>>
    /\ first_row' = TRUE
    /\ output' = <<>>
    /\ sink_calls' = 0
    /\ held' = drop_locals(held)
    /\ UNCHANGED <<helper, input, src_start, config, faults, chunk_size>>

\* Ok(..) or Err(CsvMdError::Csv) for a record, with no call on the sink
\* made in this step.
Return(s, status, emitted) ==
    Exit(s, status, IF status = "Ok" THEN "none" ELSE "record", emitted,
         sink_calls, src_reads, FALSE)

\* The entry points called before entry point s.
CalledBefore(s) ==
    CASE s = "A" -> {}
      [] s = "B" -> {"A"}
      [] s = "C" -> {"A", "B"}
      [] s = "D" -> {"A", "B", "C"}

\* An entry point is called when none runs and the ones before it returned.
MayCall(s) ==
    /\ pc = "idle"
    /\ outcome[s].status = "pending"
    /\ \A t \in CalledBefore(s) : outcome[t].status # "pending"

\* ---------------------------------------------- Strategy A: csv_to_markdown

\* Mutant of empty_result: a lone line feed instead of the empty String.
empty_result_blank_line == <<LF>>

\* String::new(), returned when no record was collected
empty_result == <<>>

\* Mutant of push: the row is put in front of the rows collected.
push_front(rows, row) == <<row>> \o rows

\* records.push(row)
push(rows, row) == Append(rows, row)

\* The reader is built over the input; records and max_cols start empty.
csv_to_markdown ==
    /\ MayCall("A")
    /\ pc' = "A_collect"
    /\ rdr' = new_reader(src_pos)
    /\ records' = <<>>
    /\ max_cols' = 0
    /\ UNCHANGED <<helper, input, src_start, config, faults, src_pos, src_reads, i, buffer, chunk_size,
                   temp_file, partial_line, first_row, output, sink_calls, held, outcome>>

\* One turn of the first loop: a record is escaped and collected, a reader
\* failure is returned, and at the end of the records either the empty
\* String is returned or the output String is set up.
csv_to_markdown_collect ==
    /\ pc = "A_collect"
    /\ LET r == read_record(input, rdr, config, src_reads, faults.source) IN
       CASE r.kind = "record" ->
              LET row == escape_row(r.fields) IN
              /\ max_cols' = Max(max_cols, Len(row))
              /\ records' = push(records, row)
              /\ rdr' = r.rdr
              /\ src_reads' = src_reads + r.reads
              /\ UNCHANGED <<helper, input, src_start, config, faults, pc, src_pos, i, buffer,
                             chunk_size, temp_file, partial_line, first_row, output,
                             sink_calls, held, outcome>>
         [] r.kind = "error" ->
              Exit("A", from_csv_error(r.error), cause_of(r.error), <<>>, 0,
                   src_reads + r.reads, FALSE)
         [] r.kind = "end" ->
              IF records = <<>>
              THEN Exit("A", "Ok", "none", empty_result, 0, src_reads + r.reads, FALSE)
              ELSE /\ pc' = "A_write"
                   /\ output' = <<>>
                   /\ i' = 0
                   /\ rdr' = r.rdr
                   /\ src_reads' = src_reads + r.reads
                   /\ UNCHANGED <<helper, input, src_start, config, faults, src_pos, records, max_cols,
                                  buffer, chunk_size, temp_file, partial_line, first_row,
                                  sink_calls, held, outcome>>

\* One turn of the second loop: row i is written, followed by the header
\* separator when it is the first row and has_headers is set; after the last
\* row the String is returned.
csv_to_markdown_write ==
    /\ pc = "A_write"
    /\ IF i < Len(records)
       THEN LET row_out == write_table_row(output, records[i + 1], max_cols) IN
            /\ output' = IF i = 0 /\ config.has_headers
                         THEN write_header_separator(row_out, max_cols, config.header_alignment)
                         ELSE row_out
            /\ i' = i + 1
            /\ UNCHANGED <<helper, input, src_start, config, faults, pc, src_pos, src_reads, rdr, records,
                           max_cols, buffer, chunk_size, temp_file, partial_line, first_row,
                           sink_calls, held, outcome>>
       ELSE Return("A", "Ok", output)

\* ------------------------------------- the two passes (B, C and D alike)

\* Mutant of header_due: first_row is not looked at.
header_due_every_row(first, cfg) == cfg.has_headers

\* Mutant of header_due: has_headers is not looked at.
header_due_first_row(first, cfg) == first

\* `first_row && config.has_headers`: the header separator is due
header_due(first, cfg) == first /\ cfg.has_headers

\* The number of the failing read call, for the reader of entry point s: C
\* reads the source itself, B its buffer and D its temporary file.
reader_fault(s) == IF s = "C" THEN faults.source ELSE 0

\* The read calls made on the source once the reader of s has made n more.
reads_after(s, n) == IF s = "C" THEN src_reads + n ELSE src_reads

\* Mutant of first_pass: the loop is left after the first record (a bounded
\* look-ahead), with max_cols that record's field count.
first_pass_one_record(s, bytes, after) ==
    LET r == read_record(bytes, rdr, config, src_reads, reader_fault(s)) IN
    CASE r.kind = "record" ->
           /\ max_cols' = Max(max_cols, Len(r.fields))
           /\ pc' = after
           /\ rdr' = r.rdr
           /\ src_pos' = IF s = "C" THEN r.rdr.pos ELSE src_pos
           /\ src_reads' = reads_after(s, r.reads)
           /\ UNCHANGED <<helper, input, src_start, config, faults, records, i, buffer,
                          chunk_size, temp_file, partial_line, first_row, output,
                          sink_calls, held, outcome>>
      [] r.kind = "error" ->
           Exit(s, from_csv_error(r.error), cause_of(r.error), output, sink_calls,
                reads_after(s, r.reads), FALSE)
      [] r.kind = "end" ->
           /\ pc' = after
           /\ rdr' = r.rdr
           /\ src_pos' = IF s = "C" THEN r.rdr.pos ELSE src_pos
           /\ src_reads' = reads_after(s, r.reads)
           /\ UNCHANGED <<helper, input, src_start, config, faults, records, max_cols, i, buffer,
                          chunk_size, temp_file, partial_line, first_row, output,
                          sink_calls, held, outcome>>

\* One turn of the first-pass loop of B and C over bytes: max_cols is raised
\* to the record's field count.  At the end of the records control moves to
\* `after`; a reader failure is returned.
first_pass(s, bytes, after) ==
    LET r == read_record(bytes, rdr, config, src_reads, reader_fault(s)) IN
    CASE r.kind = "record" ->
           /\ max_cols' = Max(max_cols, Len(r.fields))
           /\ rdr' = r.rdr
           /\ src_reads' = reads_after(s, r.reads)
           /\ UNCHANGED <<helper, input, src_start, config, faults, pc, src_pos, records, i, buffer,
                          chunk_size, temp_file, partial_line, first_row, output,
                          sink_calls, held, outcome>>
      [] r.kind = "error" ->
           Exit(s, from_csv_error(r.error), cause_of(r.error), output, sink_calls,
                reads_after(s, r.reads), FALSE)
      [] r.kind = "end" ->
           /\ pc' = after
           /\ rdr' = r.rdr
           /\ src_pos' = IF s = "C" THEN r.rdr.pos ELSE src_pos
           /\ src_reads' = reads_after(s, r.reads)
           /\ UNCHANGED <<helper, input, src_start, config, faults, records, max_cols, i, buffer,
                          chunk_size, temp_file, partial_line, first_row, output,
                          sink_calls, held, outcome>>

\* One turn of the second-pass loop over bytes: the record is escaped and
\* written at width max_cols, then the header separator when first_row and
\* has_headers; first_row is cleared only there.  A write that fails is
\* returned at once as CsvMdError::Io.  At the end of the records the sink is
\* flushed and Ok is returned; a reader failure is returned with the sink
\* left as it is.
second_pass(s, bytes) ==
    LET r == read_record(bytes, rdr, config, src_reads, reader_fault(s)) IN
    CASE r.kind = "record" ->
           LET row == escape_row(r.fields)
               width == max_cols
               due == header_due(first_row, config)
               row_out == sink_write(output, table_row_writes(row, width), sink_calls,
                                     faults.sink)
               out == IF due /\ ~row_out.failed
                      THEN sink_write(row_out.output,
                                      header_separator_writes(width, config.header_alignment),
                                      row_out.calls, faults.sink)
                      ELSE row_out
           IN IF out.failed
              THEN Exit(s, from_io_error, "sink", out.output, out.calls,
                        reads_after(s, r.reads), FALSE)
              ELSE /\ output' = out.output
                   /\ sink_calls' = out.calls
                   /\ first_row' = IF due THEN FALSE ELSE first_row
                   /\ rdr' = r.rdr
                   /\ src_reads' = reads_after(s, r.reads)
                   /\ UNCHANGED <<helper, input, src_start, config, faults, pc, src_pos, records,
                                  max_cols, i, buffer, chunk_size, temp_file, partial_line,
                                  held, outcome>>
      [] r.kind = "error" ->
           Exit(s, from_csv_error(r.error), cause_of(r.error), output, sink_calls,
                reads_after(s, r.reads), FALSE)
      [] r.kind = "end" ->
           IF faults.sink = sink_calls + 1
           THEN Exit(s, from_io_error, "sink", output, sink_calls + 1,
                     reads_after(s, r.reads), FALSE)
           ELSE Exit(s, "Ok", "none", output, sink_calls + 1, reads_after(s, r.reads), TRUE)

\* ------------------------------------ Strategy B: csv_to_markdown_streaming

\* `let mut buffer = Vec::new()`: the call owns an empty buffer.
csv_to_markdown_streaming ==
    /\ MayCall("B")
    /\ pc' = "B_read"
    /\ buffer' = <<>>
    /\ held' = {"buffer"}
    /\ UNCHANGED <<helper, input, src_start, config, faults, src_pos, src_reads, rdr, records, max_cols,
                   i, chunk_size, temp_file, partial_line, first_row, output, sink_calls,
                   outcome>>

\* The read calls input.read_to_end makes on a source with n bytes left: one
\* for each byte at least, and the one that finds the end.
read_to_end_calls(n) == n + 1

\* input.read_to_end(&mut buffer)?, and the first reader built over the
\* buffer.  A read call that fails is returned as CsvMdError::Io.
csv_to_markdown_streaming_read ==
    /\ pc = "B_read"
    /\ LET calls == read_to_end_calls(Len(input) + 1 - src_pos) IN
       IF faults.source >= 1 /\ faults.source <= calls
       THEN Exit("B", from_io_error, "source", output, sink_calls, faults.source, FALSE)
       ELSE /\ pc' = "B_pass1"
            /\ buffer' = SubSeq(input, src_pos, Len(input))
            /\ src_pos' = Len(input) + 1
            /\ src_reads' = calls
            /\ rdr' = new_reader(1)
            /\ max_cols' = 0
            /\ UNCHANGED <<helper, input, src_start, config, faults, records, i, chunk_size, temp_file,
                           partial_line, first_row, output, sink_calls, held, outcome>>

csv_to_markdown_streaming_pass1 ==
    /\ pc = "B_pass1"
    /\ first_pass("B", buffer, "B_reader2")

\* The second cursor and reader over the same buffer.
csv_to_markdown_streaming_reader2 ==
    /\ pc = "B_reader2"
    /\ pc' = "B_pass2"
    /\ rdr' = new_reader(1)
    /\ first_row' = TRUE
    /\ UNCHANGED <<helper, input, src_start, config, faults, src_pos, src_reads, records, max_cols, i,
                   buffer, chunk_size, temp_file, partial_line, output, sink_calls, held,
                   outcome>>

csv_to_markdown_streaming_pass2 ==
    /\ pc = "B_pass2"
    /\ second_pass("B", buffer)

\* --------------------------- Strategy C: csv_to_markdown_two_pass_streaming

\* The first reader is built over the source at its current position.
csv_to_markdown_two_pass_streaming ==
    /\ MayCall("C")
    /\ pc' = "C_pass1"
    /\ rdr' = new_reader(src_pos)
    /\ max_cols' = 0
    /\ UNCHANGED <<helper, input, src_start, config, faults, src_pos, src_reads, records, i, buffer,
                   chunk_size, temp_file, partial_line, first_row, output, sink_calls, held,
                   outcome>>

csv_to_markdown_two_pass_streaming_pass1 ==
    /\ pc = "C_pass1"
    /\ first_pass("C", input, "C_seek")

\* input.seek(SeekFrom::Start(0))?, and the second reader built over the
\* source.  A seek that fails is returned as CsvMdError::Io.
csv_to_markdown_two_pass_streaming_seek ==
    /\ pc = "C_seek"
    /\ IF faults.seek
       THEN Exit("C", from_io_error, "seek", output, sink_calls, src_reads, FALSE)
       ELSE /\ pc' = "C_pass2"
            /\ src_pos' = 1
            /\ rdr' = new_reader(1)
            /\ first_row' = TRUE
            /\ UNCHANGED <<helper, input, src_start, config, faults, src_reads, records, max_cols, i,
                           buffer, chunk_size, temp_file, partial_line, output, sink_calls,
                           held, outcome>>

csv_to_markdown_two_pass_streaming_pass2 ==
    /\ pc = "C_pass2"
    /\ second_pass("C", input)

\* ---------------------------- Strategy D: csv_to_markdown_chunked_streaming

\* tempfile::tempfile(): the call owns a new, empty, unnamed file; the
\* caller chooses chunk_size.
csv_to_markdown_chunked_streaming ==
    /\ MayCall("D")
    /\ \E n \in 0..MaxChunk : chunk_size' = n
    /\ pc' = "D_copy"
    /\ temp_file' = <<>>
    /\ held' = {"temp_file"}
    /\ max_cols' = 0
    /\ partial_line' = <<>>
    /\ UNCHANGED <<helper, input, src_start, config, faults, src_pos, src_reads, rdr, records, i, buffer,
                   first_row, output, sink_calls, outcome>>

\* Mutant of write_all: the whole chunk_buffer is written, not only the
\* bytes_read bytes the read filled.
write_all_whole_buffer(file, chunk) ==
    (file \o chunk) \o [k \in 1..(chunk_size - Len(chunk)) |-> "0x00"]

\* temp_file.write_all(&chunk_buffer[..bytes_read]): the bytes read are put
\* at the end of the file.
write_all(file, chunk) == file \o chunk

\* Mutant of bytes_read_choices: the size of the buffer is not looked at.
bytes_read_choices_any ==
    LET most == Len(input) + 1 - src_pos IN
    IF most = 0 THEN {0} ELSE 1..most

\* input.read(&mut chunk_buffer): any number of bytes from 1 up to the
\* buffer's size and the bytes left; 0 at the end of the source or with an
\* empty buffer.
bytes_read_choices ==
    LET most == Min(chunk_size, Len(input) + 1 - src_pos) IN
    IF most = 0 THEN {0} ELSE 1..most

\* One turn of the read loop.  A read call that fails is returned as
\* CsvMdError::Io.  A read of 0 bytes leaves the loop: the carried partial
\* line is counted, the temporary file is rewound (a seek that fails is
\* returned as CsvMdError::Io) and the reader of the second pass is built
\* over it.  Otherwise the chunk is appended to the temporary file and its
\* complete lines are counted.
csv_to_markdown_chunked_streaming_read ==
    /\ pc = "D_copy"
    /\ IF faults.source = src_reads + 1
       THEN Exit("D", from_io_error, "source", output, sink_calls, src_reads + 1, FALSE)
       ELSE \E bytes_read \in bytes_read_choices :
         IF bytes_read = 0
         THEN IF faults.seek
              THEN Exit("D", from_io_error, "seek", output, sink_calls, src_reads + 1, FALSE)
              ELSE /\ max_cols' = process_remaining(partial_line, max_cols, config.delimiter)
                   /\ rdr' = new_reader(1)
                   /\ first_row' = TRUE
                   /\ pc' = "D_pass2"
                   /\ src_reads' = src_reads + 1
                   /\ UNCHANGED <<helper, input, src_start, config, faults, src_pos, records, i, buffer,
                                  chunk_size, temp_file, partial_line, output, sink_calls,
                                  held, outcome>>
         ELSE LET chunk == SubSeq(input, src_pos, src_pos + bytes_read - 1)
                  st == process_chunk(partial_line, chunk, max_cols, config.delimiter)
              IN /\ temp_file' = write_all(temp_file, chunk)
                 /\ src_pos' = src_pos + bytes_read
                 /\ src_reads' = src_reads + 1
                 /\ partial_line' = st.partial_line
                 /\ max_cols' = st.max_cols
                 /\ UNCHANGED <<helper, input, src_start, config, faults, pc, rdr, records, i, buffer,
                                chunk_size, first_row, output, sink_calls, held, outcome>>

csv_to_markdown_chunked_streaming_pass2 ==
    /\ pc = "D_pass2"
    /\ second_pass("D", temp_file)

\* ------------------------------------------------------------ specification

Next ==
    \/ csv_to_markdown
    \/ csv_to_markdown_collect
    \/ csv_to_markdown_write
    \/ csv_to_markdown_streaming
    \/ csv_to_markdown_streaming_read
    \/ csv_to_markdown_streaming_pass1
    \/ csv_to_markdown_streaming_reader2
    \/ csv_to_markdown_streaming_pass2
    \/ csv_to_markdown_two_pass_streaming
    \/ csv_to_markdown_two_pass_streaming_pass1
    \/ csv_to_markdown_two_pass_streaming_seek
    \/ csv_to_markdown_two_pass_streaming_pass2
    \/ csv_to_markdown_chunked_streaming
    \/ csv_to_markdown_chunked_streaming_read
    \/ csv_to_markdown_chunked_streaming_pass2

Spec == Init /\ [][Next]_vars

\* The same entry points on sources that hold bytes that are no UTF-8 and
\* with one call on the source or the sink, or seek, failing.  An entry point
\* returns at the first call that fails, so one failure is all it can meet.
FaultAlphabet == {"a", ",", LF, BAD}

FaultInputs == Texts(FaultAlphabet, MaxFaultLen)

\* Read calls the entry point making most of them makes: C reads the source
\* twice, each time to its end.
MaxSourceFault == 2 * (MaxFaultLen + 1)

Faults ==
    {NoFaults}
        \cup {[NoFaults EXCEPT !.source = k] : k \in 1..MaxSourceFault}
        \cup {[NoFaults EXCEPT !.sink = k] : k \in 1..MaxSinkFault}
        \cup {[NoFaults EXCEPT !.seek = TRUE]}

FaultConfig == {c \in Config : c.header_alignment = "Left"}

InitFaults ==
    /\ input \in FaultInputs
    /\ src_start = 1
    /\ config \in FaultConfig
    /\ faults \in Faults
    /\ pc = "idle"
    /\ outcome = [s \in Strategies |-> Pending]
    /\ chunk_size = 0
    /\ NoLocals
    /\ args = NoHelper
    /\ ret = NoHelper

SpecFaults == InitFaults /\ [][Next]_vars

\* The same entry points on a seekable source that is handed over at any of
\* its positions, every call on it succeeding.
PositionedInputs == Texts({"a", ",", LF}, MaxPositionedLen)

InitPositioned ==
    /\ input \in PositionedInputs
    /\ src_start \in 1..(Len(input) + 1)
    /\ config \in FaultConfig
    /\ faults = NoFaults
    /\ pc = "idle"
    /\ outcome = [s \in Strategies |-> Pending]
    /\ chunk_size = 0
    /\ NoLocals
    /\ args = NoHelper
    /\ ret = NoHelper

SpecPositioned == InitPositioned /\ [][Next]_vars

\* The entry points on a source handed over at its start, with the call of
\* csv_to_markdown_chunked_streaming going on: each turn of its read loop is
\* taken.
InitTerminating ==
    /\ InitPositioned
    /\ src_start = 1

SpecTerminating ==
    InitTerminating /\ [][Next]_vars /\ WF_vars(csv_to_markdown_chunked_streaming_read)

\* --------------------------------- the column estimator applied on its own

\* The lines counted on their own: no line ending in them.
CountLines == Texts({"a", ",", QUOTE}, MaxLineLen)

InitCount ==
    /\ input = <<>>
    /\ src_start = 1
    /\ config \in {c \in Config : c.header_alignment = "Left"}
    /\ faults = NoFaults
    /\ pc = "idle"
    /\ outcome = [s \in Strategies |-> Pending]
    /\ chunk_size = 0
    /\ NoLocals
    /\ args \in [stage : {0}, line : CountLines]
    /\ ret = [stage |-> 0, columns |-> 0, item |-> [kind |-> "none"]]

\* count_csv_columns is applied to the line, and the configured reader to
\* the same bytes.
count_columns ==
    /\ ret.stage = 0
    /\ ret' = [stage |-> 1,
               columns |-> count_csv_columns(args.line, config.delimiter),
               item |-> next_record(args.line, new_reader(1), config)]
    /\ UNCHANGED <<conversion, args>>

NextCount == count_columns

SpecCount == InitCount /\ [][NextCount]_vars

\* ------------------------------------- the cell escaper applied on its own

\* The characters of the fields escaped on their own: a plain one, the three
\* the escaper rewrites, and two that occur in what it writes.
EscapeAlphabet == {"a", PIPE, LF, CR, BACKSLASH, "<"}

EscapeFields == Texts(EscapeAlphabet, MaxFieldLen)

\* Field g is field f with some of its pipes and line feeds exchanged for
\* one another (or is f itself).
PipeLfVariant(f, g) ==
    /\ Len(g) = Len(f)
    /\ \A k \in 1..Len(f) : g[k] # f[k] => (f[k] \in {PIPE, LF} /\ g[k] \in {PIPE, LF})

\* Config::default()
DefaultConfig == [has_headers |-> TRUE, flexible |-> TRUE, delimiter |-> ",",
                  header_alignment |-> "Left"]

\* No entry point is called.
NoConversion ==
    /\ input = <<>>
    /\ src_start = 1
    /\ config = DefaultConfig
    /\ faults = NoFaults
    /\ pc = "idle"
    /\ outcome = [s \in Strategies |-> Pending]
    /\ chunk_size = 0
    /\ NoLocals

InitEscape ==
    /\ NoConversion
    /\ \E f \in EscapeFields : \E g \in {h \in EscapeFields : PipeLfVariant(f, h)} :
           args = [stage |-> 0, field |-> f, other |-> g]
    /\ ret = [stage |-> 0, escaped |-> <<>>, other_escaped |-> <<>>, twice |-> <<>>]

\* escape_markdown_cell is applied to the field, and to the other field.
escape_fields ==
    /\ ret.stage = 0
    /\ ret' = [stage |-> 1,
               escaped |-> escape_markdown_cell(args.field),
               other_escaped |-> escape_markdown_cell(args.other),
               twice |-> <<>>]
    /\ UNCHANGED <<conversion, args>>

\* escape_markdown_cell is applied to what it returned for the field.
escape_again ==
    /\ ret.stage = 1
    /\ ret' = [ret EXCEPT !.stage = 2, !.twice = escape_markdown_cell(ret.escaped)]
    /\ UNCHANGED <<conversion, args>>

NextEscape ==
    \/ escape_fields
    \/ escape_again

SpecEscape == InitEscape /\ [][NextEscape]_vars

\* -------------------------------------- the row renderer applied on its own

\* The fields of the records rendered on their own.
RenderFields == Texts({"a", PIPE, LF}, MaxCellLen)

RenderRecords == UNION {[1..k -> RenderFields] : k \in 0..MaxRowLen}

\* What the output holds before the writer is applied.
RenderBefore == {<<>>, <<PIPE, LF>>}

InitRender ==
    /\ NoConversion
    /\ args \in [stage : {0}, record : RenderRecords, width : 0..MaxWidth,
                 alignment : HeaderAlignment, before : RenderBefore]
    /\ ret = [stage |-> 0, row_string |-> <<>>, row_writer |-> <<>>,
              separator_string |-> <<>>, separator_writer |-> <<>>]

\* The record is escaped, as every caller does, and both row writers are
\* applied to it at the width.
render_row ==
    /\ ret.stage = 0
    /\ LET row == escape_row(args.record) IN
       ret' = [ret EXCEPT !.stage = 1,
                          !.row_string = write_table_row(args.before, row, args.width),
                          !.row_writer = write_table_row_to_writer(args.before, row, args.width)]
    /\ UNCHANGED <<conversion, args>>

\* Both header separator writers are applied at the width and alignment.
render_header_separator ==
    /\ ret.stage = 1
    /\ ret' = [ret EXCEPT !.stage = 2,
                          !.separator_string =
                              write_header_separator(args.before, args.width, args.alignment),
                          !.separator_writer =
                              write_header_separator_to_writer(args.before, args.width,
                                                               args.alignment)]
    /\ UNCHANGED <<conversion, args>>

NextRender ==
    \/ render_row
    \/ render_header_separator

SpecRender == InitRender /\ [][NextRender]_vars

\* ---------------------------------------------------------------- the CLI

\* The values of --align
ClapAlignment == {"Left", "Center", "Centre", "Right"}

\* impl From<ClapAlignment> for HeaderAlignment
header_alignment_from(clap_align) ==
    CASE clap_align = "Left" -> "Left"
      [] clap_align \in {"Center", "Centre"} -> "Center"
      [] clap_align = "Right" -> "Right"

\* What Args::parse() can give (file: a path or None), and whether the file
\* at the path can be opened.
Args == [stage : {0}, file : {"none", "path"}, delimiter : {","}, no_headers : BOOLEAN,
         stream : BOOLEAN, align : ClapAlignment, file_opens : BOOLEAN]

\* The Config main builds from the arguments.
main_config(a) ==
    [has_headers |-> ~a.no_headers, flexible |-> TRUE, delimiter |-> a.delimiter,
     header_alignment |-> header_alignment_from(a.align)]

\* csvmd::csv_to_markdown_streaming_seekable, which main calls and lib.rs
\* does not define: the seekable entry point of the specification
\* (convert_streaming_seekable), Strategy C.
csv_to_markdown_streaming_seekable == "C"

\* Mutant of main_selects: --stream falls back to the buffered entry point
\* for a file too.
main_selects_buffered(a) == IF a.stream THEN "B" ELSE "A"

\* The entry point the branches of main call.
main_selects(a) ==
    IF a.stream
    THEN (IF a.file # "none" THEN csv_to_markdown_streaming_seekable ELSE "B")
    ELSE "A"

\* The source main hands to the entry point: the file when a path is given,
\* InteractiveStdin otherwise.
main_source(a) == IF a.file # "none" THEN "file" ELSE "stdin"

InitCli ==
    /\ NoConversion
    /\ args \in Args
    /\ ret = [stage |-> 0, config |-> DefaultConfig, strategy |-> "none", source |-> "none",
              called |-> <<>>, source_reads |-> 0, result |-> "running"]

\* main up to the call of the entry point: the arguments are parsed, the
\* Config is built, the branch is taken and the source is made (File::open
\* reads nothing, and neither does InteractiveStdin::new()).  A file that
\* cannot be opened ends main with CsvMdError::Io, no entry point called.
main ==
    /\ ret.stage = 0
    /\ IF main_source(args) = "file" /\ ~args.file_opens
       THEN ret' = [ret EXCEPT !.stage = 3, !.config = main_config(args),
                               !.strategy = main_selects(args), !.result = from_io_error]
       ELSE ret' = [ret EXCEPT !.stage = 1, !.config = main_config(args),
                               !.strategy = main_selects(args),
                               !.source = main_source(args)]
    /\ UNCHANGED <<conversion, args>>

\* The entry point chosen is called on the source, and reads it.
main_convert ==
    /\ ret.stage = 1
    /\ ret' = [ret EXCEPT !.stage = 2, !.called = Append(ret.called, ret.strategy),
                           !.source_reads = ret.source_reads + 1]
    /\ UNCHANGED <<conversion, args>>

\* The entry point returns, and main with it: Ok, or the entry point's Err.
main_return ==
    /\ ret.stage = 2
    /\ \E result \in {"Ok", "Io", "Csv"} : ret' = [ret EXCEPT !.stage = 3, !.result = result]
    /\ UNCHANGED <<conversion, args>>

NextCli ==
    \/ main
    \/ main_convert
    \/ main_return

SpecCli == InitCli /\ [][NextCli]_vars

\* ------------------------------------------- two calls at the same time
\* Two calls of csv_to_markdown_streaming or csv_to_markdown_chunked_streaming
\* run at once, their steps interleaved in any order.  Each call has its
\* locals to itself; what the calls have in common is the file system in
\* which tempfile() makes its files.  Every read gives the chunk in full, so
\* that a call run alone has one outcome to compare with.

\* The locals of a call of entry point s, before its first step.
NewCall(s, bytes, cfg, size) ==
    [strategy |-> s, input |-> bytes, config |-> cfg, chunk_size |-> size, pc |-> "start",
     src_pos |-> 1, rdr |-> new_reader(1), records |-> <<>>, i |-> 0, max_cols |-> 0,
     buffer |-> <<>>, file |-> 0, partial_line |-> <<>>, first_row |-> TRUE,
     output |-> <<>>, status |-> "pending"]

\* Mutant of tempfile: the file is made under one fixed name.
tempfile_fixed_name(files) == 1

\* tempfile::tempfile(): a file no one else has, here the one numbered next
\* after the files made so far.
tempfile(files) == Len(files) + 1

\* The file numbered h made, or emptied when it is there already.
created(files, h) == IF h > Len(files) THEN Append(files, <<>>) ELSE [files EXCEPT ![h] = <<>>]

\* One turn of the first loop of csv_to_markdown for call c, as in
\* csv_to_markdown_collect.
call_collect(c) ==
    LET r == next_record(c.input, c.rdr, c.config) IN
    CASE r.kind = "record" ->
           LET row == escape_row(r.fields) IN
           [c EXCEPT !.max_cols = Max(c.max_cols, Len(row)),
                     !.records = push(c.records, row),
                     !.rdr = r.rdr]
      [] r.kind = "error" -> [c EXCEPT !.pc = "done", !.status = from_csv_error(r.error)]
      [] r.kind = "end" ->
           IF c.records = <<>>
           THEN [c EXCEPT !.pc = "done", !.status = "Ok", !.output = empty_result]
           ELSE [c EXCEPT !.pc = "write", !.rdr = r.rdr, !.i = 0, !.output = <<>>]

\* One turn of the second loop of csv_to_markdown for call c, as in
\* csv_to_markdown_write.
call_write(c) ==
    IF c.i < Len(c.records)
    THEN LET row_out == write_table_row(c.output, c.records[c.i + 1], c.max_cols) IN
         [c EXCEPT !.output = IF header_due(c.i = 0, c.config)
                               THEN write_header_separator(row_out, c.max_cols,
                                                           c.config.header_alignment)
                               ELSE row_out,
                   !.i = c.i + 1]
    ELSE [c EXCEPT !.pc = "done", !.status = "Ok"]

\* One turn of the first-pass loop of call c over bytes, as in first_pass;
\* at the end of the records the source is rewound and the second reader
\* built.
call_first_pass(c, bytes) ==
    LET r == next_record(bytes, c.rdr, c.config) IN
    CASE r.kind = "record" ->
           [c EXCEPT !.max_cols = Max(c.max_cols, Len(r.fields)), !.rdr = r.rdr]
      [] r.kind = "error" -> [c EXCEPT !.pc = "done", !.status = from_csv_error(r.error)]
      [] r.kind = "end" ->
           [c EXCEPT !.pc = "pass2", !.rdr = new_reader(1), !.first_row = TRUE,
                     !.src_pos = IF c.strategy = "C" THEN 1 ELSE c.src_pos]

\* One record of the second pass of call c over bytes, as in second_pass
\* with every write succeeding.
call_second_pass(c, bytes) ==
    LET r == next_record(bytes, c.rdr, c.config) IN
    CASE r.kind = "record" ->
           LET row == escape_row(r.fields)
               due == header_due(c.first_row, c.config)
               row_out == write_table_row_to_writer(c.output, row, c.max_cols)
           IN [c EXCEPT !.output = IF due
                                   THEN write_header_separator_to_writer(
                                            row_out, c.max_cols, c.config.header_alignment)
                                   ELSE row_out,
                        !.first_row = IF due THEN FALSE ELSE c.first_row,
                        !.rdr = r.rdr]
      [] r.kind = "error" -> [c EXCEPT !.pc = "done", !.status = from_csv_error(r.error)]
      [] r.kind = "end" -> [c EXCEPT !.pc = "done", !.status = "Ok"]

\* One turn of the read loop of csv_to_markdown_chunked_streaming for call
\* c, every read filling the chunk as far as the source goes: the call's new
\* locals and the new file system.
call_read(c, files) ==
    LET bytes_read == Min(c.chunk_size, Len(c.input) + 1 - c.src_pos) IN
    IF bytes_read = 0
    THEN [call |-> [c EXCEPT !.max_cols = process_remaining(c.partial_line, c.max_cols,
                                                            c.config.delimiter),
                             !.rdr = new_reader(1), !.first_row = TRUE,
                             !.pc = "pass2"],
          files |-> files]
    ELSE LET chunk == SubSeq(c.input, c.src_pos, c.src_pos + bytes_read - 1)
             st == process_chunk(c.partial_line, chunk, c.max_cols, c.config.delimiter)
         IN [call |-> [c EXCEPT !.src_pos = c.src_pos + bytes_read,
                                !.partial_line = st.partial_line,
                                !.max_cols = st.max_cols],
             files |-> [files EXCEPT ![c.file] = write_all(files[c.file], chunk)]]

\* One step of call c in the file system files: the call's new locals and
\* the new file system.
call_step(c, files) ==
    CASE c.pc = "start" /\ c.strategy = "A" ->
           [call |-> [c EXCEPT !.pc = "collect", !.rdr = new_reader(c.src_pos)],
            files |-> files]
      [] c.pc = "start" /\ c.strategy = "B" ->
           [call |-> [c EXCEPT !.pc = "pass1",
                               !.buffer = SubSeq(c.input, c.src_pos, Len(c.input)),
                               !.src_pos = Len(c.input) + 1, !.rdr = new_reader(1)],
            files |-> files]
      [] c.pc = "start" /\ c.strategy = "C" ->
           [call |-> [c EXCEPT !.pc = "pass1", !.rdr = new_reader(c.src_pos)],
            files |-> files]
      [] c.pc = "start" /\ c.strategy = "D" ->
           LET h == tempfile(files) IN
           [call |-> [c EXCEPT !.pc = "copy", !.file = h], files |-> created(files, h)]
      [] c.pc = "collect" -> [call |-> call_collect(c), files |-> files]
      [] c.pc = "write" -> [call |-> call_write(c), files |-> files]
      [] c.pc = "pass1" ->
           [call |-> call_first_pass(c, IF c.strategy = "B" THEN c.buffer ELSE c.input),
            files |-> files]
      [] c.pc = "copy" -> call_read(c, files)
      [] c.pc = "pass2" ->
           [call |-> call_second_pass(c, CASE c.strategy = "B" -> c.buffer
                                           [] c.strategy = "C" -> c.input
                                           [] OTHER -> files[c.file]),
            files |-> files]
      [] OTHER -> [call |-> c, files |-> files]

\* The sources and Configs of the calls run at once.
ConcurrentInputs == Texts({"a", ",", LF}, MaxConcurrentLen)

ConcurrentConfig == {c \in Config : c.header_alignment = "Left" /\ c.flexible}

Calls == {1, 2}

InitConcurrent ==
    /\ NoConversion
    /\ \E s \in [Calls -> {"B", "D"}] : \E bytes \in [Calls -> ConcurrentInputs] :
       \E cfg \in ConcurrentConfig :
           /\ bytes[1] # bytes[2]
           /\ args = [stage |-> 0, strategy |-> s, input |-> bytes,
                       config |-> [p \in Calls |-> cfg],
                       chunk_size |-> [p \in Calls |-> MaxChunk]]
           /\ ret = [stage |-> 0,
                     call |-> [p \in Calls |-> NewCall(s[p], bytes[p], cfg, MaxChunk)],
                     files |-> <<>>]

\* Call p takes its next step.
convert_step(p) ==
    /\ ret.call[p].pc # "done"
    /\ LET n == call_step(ret.call[p], ret.files) IN
       ret' = [ret EXCEPT !.call[p] = n.call, !.files = n.files]
    /\ UNCHANGED <<conversion, args>>

NextConcurrent == \E p \in Calls : convert_step(p)

SpecConcurrent == InitConcurrent /\ [][NextConcurrent]_vars

\* Two calls of the same entry point on the same input, with Configs that
\* differ in header_alignment only.
AlignmentInputs == Texts({"a", ",", LF}, MaxConcurrentLen)

InitAlignment ==
    /\ NoConversion
    /\ \E s \in Strategies : \E bytes \in AlignmentInputs :
       \E cfg \in {c \in Config : c.flexible} :
       \E other \in HeaderAlignment \ {cfg.header_alignment} :
           /\ args = [stage |-> 0,
                      strategy |-> [p \in Calls |-> s],
                      input |-> [p \in Calls |-> bytes],
                      config |-> <<cfg, [cfg EXCEPT !.header_alignment = other]>>,
                      chunk_size |-> [p \in Calls |-> MaxChunk]]
           /\ ret = [stage |-> 0,
                     call |-> [p \in Calls |-> NewCall(args.strategy[p], args.input[p],
                                                       args.config[p], args.chunk_size[p])],
                     files |-> <<>>]

SpecAlignment == InitAlignment /\ [][NextConcurrent]_vars

\* ------------------------------------------------------ InteractiveStdin
\* The wrapper of stdin in main.rs, read through its impl of Read.  args is
\* the process's stdin: whether it is a terminal, the bytes read_to_end
\* gets from it, and whether read_to_end fails.  ret is the wrapper and what
\* goes on around it: the thread reading stdin, the channel, and what the
\* reads gave.

StdinContents == Texts({"a", "b"}, MaxStdinLen)

Stdin == [stage : {0}, is_terminal : BOOLEAN, content : StdinContents, fails : BOOLEAN]

\* InteractiveStdin::new(), no read call made yet.
new_interactive_stdin ==
    [stage |-> 0,
     buffer |-> <<>>, position |-> 0, initialized |-> FALSE,
     pc |-> "idle",            \* where the main thread stands in a read call
     buf_len |-> 0,            \* buf.len() of the read call under way
     thread |-> "none",        \* the thread spawned to read stdin
     channel |-> <<>>,         \* the results sent and not yet received
     senders |-> 0,            \* the Senders of the channel not yet dropped
     message_shown |-> FALSE,
     spawned |-> 0,            \* threads spawned
     slept |-> 0,              \* 2-second waits ended
     messages |-> 0,           \* times the waiting message was printed
     found_empty |-> FALSE,    \* try_recv after the 2-second wait gave Empty
     disconnected |-> FALSE,   \* some try_recv gave Disconnected
     stdin_reads |-> 0,        \* read_to_end calls on stdin
     init |-> "none",          \* what initialize_if_needed returned first
     reads |-> 0,              \* read calls that returned
     last |-> [kind |-> "none", n |-> 0, buf_len |-> 0],
     at_end |-> FALSE,         \* a read into a non-empty buf returned Ok(0)
     delivered |-> <<>>]       \* the bytes the reads returned, in order

\* Mutant of stdin_copy: the bytes are copied from the start of the buffer.
stdin_copy_from_start(data, position, n) ==
    LET remaining == Len(data) - position
        to_copy == Min(n, remaining)
    IN IF remaining = 0 THEN [bytes |-> <<>>, position |-> position]
       ELSE [bytes |-> SubSeq(data, 1, to_copy), position |-> position + to_copy]

\* The body of read after initialize_if_needed()?: the bytes copied into a
\* buf of n bytes, and the new position.
stdin_copy(data, position, n) ==
    LET remaining == Len(data) - position
        to_copy == Min(n, remaining)
    IN IF remaining = 0 THEN [bytes |-> <<>>, position |-> position]
       ELSE [bytes |-> SubSeq(data, position + 1, position + to_copy),
             position |-> position + to_copy]

\* read returns Ok(to_copy), initialize_if_needed having returned Ok.
read_ok(r, n) ==
    LET cp == stdin_copy(r.buffer, r.position, n) IN
    [r EXCEPT !.pc = "idle", !.position = cp.position,
              !.delivered = r.delivered \o cp.bytes,
              !.last = [kind |-> "Ok", n |-> Len(cp.bytes), buf_len |-> n],
              !.at_end = r.at_end \/ (n >= 1 /\ cp.bytes = <<>>),
              !.reads = r.reads + 1]

\* read returns the Err of initialize_if_needed()?.
read_err(r, n) ==
    [r EXCEPT !.pc = "idle", !.last = [kind |-> "Err", n |-> 0, buf_len |-> n],
              !.reads = r.reads + 1]

\* Mutant of reads_directly: stdin is read on a thread whatever it is.
reads_directly_never(is_terminal) == FALSE

\* `if !std::io::stdin().is_terminal()`: stdin is read at once, in place.
reads_directly(is_terminal) == ~is_terminal

\* Mutant of thread_result: the Err of read_to_end is dropped and the bytes
\* read are sent.
thread_result_dropping_error(content, fails) == [kind |-> "Ok", data |-> content]

\* What the thread sends: Ok(stdin_buffer) or Err(e), as read_to_end gave.
thread_result(content, fails) ==
    IF fails THEN [kind |-> "Err", data |-> <<>>] ELSE [kind |-> "Ok", data |-> content]

\* rx.try_recv(): the oldest result sent; Empty while a Sender lives, and
\* Disconnected when none does.
try_recv(channel, senders) ==
    IF channel # <<>> THEN Head(channel)
    ELSE IF senders = 0 THEN [kind |-> "Disconnected", data |-> <<>>]
    ELSE [kind |-> "Empty", data |-> <<>>]

\* initialize_if_needed returns from its match on a result received, or on
\* Disconnected: tx and rx are dropped, and read goes on or returns the Err.
initialized_with(r, msg, n) ==
    LET closed == [r EXCEPT !.channel = <<>>, !.senders = r.senders - 1,
                            !.disconnected = r.disconnected \/ msg.kind = "Disconnected"]
    IN IF msg.kind = "Ok"
       THEN read_ok([closed EXCEPT !.buffer = msg.data, !.init = "Ok"], n)
       ELSE read_err([closed EXCEPT !.init = "Err"], n)

InitStdin ==
    /\ NoConversion
    /\ args \in Stdin
    /\ ret = new_interactive_stdin

\* A read call with a buf of n bytes.  On an InteractiveStdin already
\* initialized the bytes are copied.  On the first call stdin is read to its
\* end in place when it is no terminal (an Err leaves what was read in the
\* buffer); when it is one, the channel is made, the thread is spawned and
\* the 2-second wait begins.
stdin_read ==
    /\ ret.pc = "idle"
    /\ ret.reads < MaxReads
    /\ \E n \in 0..MaxBufLen :
         IF ret.initialized
         THEN ret' = read_ok(ret, n)
         ELSE LET r == [ret EXCEPT !.initialized = TRUE] IN
              IF reads_directly(args.is_terminal)
              THEN LET reading == [r EXCEPT !.stdin_reads = r.stdin_reads + 1] IN
                   IF args.fails
                   THEN \E k \in 0..Len(args.content) :
                          ret' = read_err([reading EXCEPT
                                              !.buffer = SubSeq(args.content, 1, k),
                                              !.init = "Err"], n)
                   ELSE ret' = read_ok([reading EXCEPT !.buffer = args.content,
                                                       !.init = "Ok"], n)
              ELSE ret' = [r EXCEPT !.pc = "sleep", !.buf_len = n,
                                    !.senders = 2, !.channel = <<>>,
                                    !.thread = "reading", !.spawned = r.spawned + 1]
    /\ UNCHANGED <<conversion, args>>

\* The spawned thread: read_to_end returns, its result is sent, and the
\* thread ends, dropping tx_for_thread.
stdin_thread ==
    /\ ret.thread = "reading"
    /\ ret' = [ret EXCEPT !.thread = "done",
                          !.stdin_reads = ret.stdin_reads + 1,
                          !.channel = Append(ret.channel,
                                             thread_result(args.content, args.fails)),
                          !.senders = ret.senders - 1]
    /\ UNCHANGED <<conversion, args>>

\* thread::sleep(Duration::from_secs(2)) ends and rx.try_recv() is matched:
\* a result received ends initialize_if_needed; on Empty
\* show_spinner_and_wait is entered.
stdin_wake ==
    /\ ret.pc = "sleep"
    /\ LET r == [ret EXCEPT !.slept = ret.slept + 1]
           msg == try_recv(ret.channel, ret.senders)
       IN IF msg.kind = "Empty"
          THEN ret' = [r EXCEPT !.pc = "spinner", !.message_shown = FALSE,
                                !.found_empty = TRUE]
          ELSE ret' = initialized_with(r, msg, ret.buf_len)
    /\ UNCHANGED <<conversion, args>>

\* One turn of the loop of show_spinner_and_wait: the message is printed if
\* it was not, and rx.try_recv() is matched; on Empty the thread sleeps 100
\* milliseconds and the loop goes round.
stdin_spin ==
    /\ ret.pc = "spinner"
    /\ LET r == [ret EXCEPT !.message_shown = TRUE,
                            !.messages = IF ret.message_shown THEN ret.messages
                                         ELSE ret.messages + 1]
           msg == try_recv(ret.channel, ret.senders)
       IN IF msg.kind = "Empty"
          THEN ret' = r
          ELSE ret' = initialized_with(r, msg, ret.buf_len)
    /\ UNCHANGED <<conversion, args>>

NextStdin ==
    \/ stdin_read
    \/ stdin_thread
    \/ stdin_wake
    \/ stdin_spin

SpecStdin == InitStdin /\ [][NextStdin]_vars

\* The main thread is scheduled: its sleeps end.  Nothing makes stdin reach
\* its end, so nothing makes the spawned thread send.
SpecStdinFair == SpecStdin /\ WF_vars(stdin_wake) /\ WF_vars(stdin_spin)

\* Two calls of csv_to_markdown_chunked_streaming on the same input with the
\* same Config, reading it in chunks of different sizes.
SplitInputs == Texts({"a", ",", LF}, MaxSplitLen)

InitSplit ==
    /\ NoConversion
    /\ \E bytes \in SplitInputs : \E cfg \in ConcurrentConfig :
       \E size \in 1..MaxChunk : \E other \in (1..MaxChunk) \ {size} :
           /\ args = [stage |-> 0,
                      strategy |-> [p \in Calls |-> "D"],
                      input |-> [p \in Calls |-> bytes],
                      config |-> [p \in Calls |-> cfg],
                      chunk_size |-> <<size, other>>]
           /\ ret = [stage |-> 0,
                     call |-> [p \in Calls |-> NewCall(args.strategy[p], args.input[p],
                                                       args.config[p], args.chunk_size[p])],
                     files |-> <<>>]

SpecSplit == InitSplit /\ [][NextConcurrent]_vars

\* ------------------------------------------------------ reading the outcome

\* The records the configured reader yields for bytes, from reader state r
\* on, and whether it ended in a failure.
RECURSIVE records_from(_, _, _, _)
records_from(bytes, r, cfg, acc) ==
    LET n == next_record(bytes, r, cfg) IN
    CASE n.kind = "record" -> records_from(bytes, n.rdr, cfg, Append(acc, n.fields))
      [] n.kind = "error" -> [records |-> acc, failed |-> TRUE]
      [] n.kind = "end" -> [records |-> acc, failed |-> FALSE]

\* What the reader yields for the whole input.
Yielded == records_from(input, new_reader(1), config, <<>>)

MaxOver(S) == IF S = {} THEN 0 ELSE CHOOSE m \in S : \A n \in S : n <= m

\* The maximum field count over all records of the input; 0 without records.
TrueMaxCols ==
    LET yielded == Yielded.records IN
    MaxOver({Len(yielded[k]) : k \in 1..Len(yielded)})

\* The entry point now running, if any.
Running ==
    CASE pc \in {"A_collect", "A_write"} -> "A"
      [] pc \in {"B_read", "B_pass1", "B_reader2", "B_pass2"} -> "B"
      [] pc \in {"C_pass1", "C_seek", "C_pass2"} -> "C"
      [] pc \in {"D_copy", "D_pass2"} -> "D"
      [] OTHER -> "none"

Returned(s) == outcome[s].status # "pending"

ReturnedOk(s) == outcome[s].status = "Ok"

AllReturned == \A s \in Strategies : Returned(s)

\* The entry points whose emitted text can have changed in the last step: the
\* one running, or the one that returned last while none runs.  (What an
\* entry point returned is written once, by Return, and stays.)
InView ==
    {s \in Strategies :
        \/ Running = s
        \/ /\ pc = "idle"
           /\ Returned(s)
           /\ \A t \in Strategies : s \in CalledBefore(t) => ~Returned(t)}

\* The control points at which rows are written.
Rendering == pc \in {"A_write", "B_pass2", "C_pass2", "D_pass2"}

\* What entry point s has emitted so far, and the width it renders at.
Emitted(s) == IF Running = s THEN output ELSE outcome[s].output

Width(s) == IF Running = s THEN max_cols ELSE outcome[s].max_cols

\* The lines of emitted text, each without its line feed: the lines from
\* index start on, with the text scanned up to index k.
RECURSIVE SplitFrom(_, _, _)
SplitFrom(text, start, k) ==
    IF k > Len(text)
    THEN (IF start <= Len(text) THEN <<SubSeq(text, start, Len(text))>> ELSE <<>>)
    ELSE IF text[k] = LF
    THEN <<SubSeq(text, start, k - 1)>> \o SplitFrom(text, k + 1, k + 1)
    ELSE SplitFrom(text, start, k + 1)

SplitLines(text) == SplitFrom(text, 1, 1)

EmittedLines(s) == SplitLines(Emitted(s))

\* No field over Alphabet holds a pipe or a dash, escaped or not: a line's
\* cells are counted by its pipes, and a line with a dash is a separator.
CellCount(line) == Cardinality({k \in 1..Len(line) : line[k] = PIPE}) - 1

IsSeparatorLine(line) == \E k \in 1..Len(line) : line[k] = "-"

\* The data rows entry point s emitted: its lines that are no separator.
RECURSIVE DataRowsOf(_)
DataRowsOf(ls) ==
    IF ls = <<>> THEN <<>>
    ELSE (IF IsSeparatorLine(Head(ls)) THEN <<>> ELSE <<Head(ls)>>) \o DataRowsOf(Tail(ls))

DataRows(s) == DataRowsOf(EmittedLines(s))

\* The bytes the reader of the running second pass reads.
SecondPassBytes ==
    CASE pc = "B_pass2" -> buffer
      [] pc = "C_pass2" -> input
      [] pc = "D_pass2" -> temp_file
      [] OTHER -> <<>>

\* ------------------------------------------------------------------ claims

\* C1: for every input (here: one the reader reads without failure) and
\* every Config, once csv_to_markdown (A), csv_to_markdown_streaming (B),
\* csv_to_markdown_two_pass_streaming (C, its source at the start) and
\* csv_to_markdown_chunked_streaming (D, with chunk_size >= 1) have
\* returned, the four emitted byte-identical output.
C1_FourStrategiesSameOutput ==
    (AllReturned /\ chunk_size >= 1 /\ ~Yielded.failed)
        => \A s, t \in Strategies : outcome[s].output = outcome[t].output

\* C2: in every strategy, on an input the reader reads without failure, the
\* max_cols used for rendering is the maximum field count over all records
\* of the input, and every emitted data row has exactly that many cells.
C2_MaxColsIsTrueMaximum ==
    LET true_max == TrueMaxCols IN
    ~Yielded.failed =>
        \A s \in InView :
            (s = "D" => chunk_size >= 1) =>
                /\ (Rendering /\ Running = s) => max_cols = true_max
                /\ LET rows == DataRows(s) IN
                   \A k \in 1..Len(rows) : CellCount(rows[k]) = true_max

\* C3: in every strategy no record is truncated: the width passed to the row
\* writer is at least the field count of the record it renders.
C3_NoRecordTruncated ==
    /\ (pc = "A_write" /\ i < Len(records)) => Len(records[i + 1]) <= max_cols
    /\ pc \in {"B_pass2", "C_pass2", "D_pass2"} =>
          LET r == next_record(SecondPassBytes, rdr, config) IN
          r.kind = "record" => Len(r.fields) <= max_cols

\* C4: for every strategy and every Config, an input that yields zero
\* records produces zero bytes of output (no row, no header separator, no
\* blank line), and the conversion succeeds.
C4_NoRecordsNoOutput ==
    (Yielded.records = <<>> /\ ~Yielded.failed)
        => /\ output = <<>>
           /\ \A s \in InView :
                 Returned(s) => (outcome[s].output = <<>> /\ ReturnedOk(s))

\* C4 witness: a non-empty input of line endings only went through the four
\* entry points with has_headers set.
C4_Witness ==
    /\ Yielded.records = <<>>
    /\ Len(input) >= 2
    /\ config.has_headers
    /\ chunk_size >= 1
    /\ AllReturned

\* C5: in every strategy the header separator line is emitted exactly once,
\* as the line right after the first rendered row (so before any second
\* row), when has_headers is set, and never when it is not; a conversion
\* that succeeded (D: with chunk_size >= 1) emitted it if and only if
\* has_headers is set and the input has at least one record.
C5_HeaderSeparatorOnceAfterFirstRow ==
    LET any_record == Yielded.records # <<>> IN
    \A s \in InView :
        LET ls == EmittedLines(s)
            at == {k \in 1..Len(ls) : IsSeparatorLine(ls[k])}
        IN /\ ~config.has_headers => at = {}
           /\ config.has_headers => at = (IF ls = <<>> THEN {} ELSE {2})
           /\ (ReturnedOk(s) /\ (s = "D" => chunk_size >= 1)) =>
                 ((at # {}) <=> (config.has_headers /\ any_record))

\* C5 witness: with has_headers set, an input of two records went through
\* the four entry points, and each emitted three lines.
C5_Witness ==
    /\ config.has_headers
    /\ Len(Yielded.records) = 2
    /\ chunk_size >= 1
    /\ \A s \in Strategies : ReturnedOk(s) /\ Len(SplitLines(outcome[s].output)) = 3

\* The line a record is rendered to at width w.
RowLine(record, w) ==
    LET text == write_table_row_to_writer(<<>>, escape_row(record), w) IN
    SubSeq(text, 1, Len(text) - 1)

\* C6: in every strategy the emitted data rows are, in order, the renderings
\* of the first records the reader yields, one row per record; a conversion
\* that succeeded (D: with chunk_size >= 1) emitted one row for every record.
C6_RowsFollowRecordsInOrder ==
    LET yielded == Yielded.records IN
    \A s \in InView :
        LET rows == DataRows(s)
            w == Width(s)
        IN /\ Len(rows) <= Len(yielded)
           /\ \A k \in 1..Len(rows) : rows[k] = RowLine(yielded[k], w)
           /\ (ReturnedOk(s) /\ (s = "D" => chunk_size >= 1)) =>
                 Len(rows) = Len(yielded)

\* C6 witness: two records that differ went through the four entry points.
C6_Witness ==
    /\ Len(Yielded.records) = 2
    /\ Yielded.records[1] # Yielded.records[2]
    /\ chunk_size >= 1
    /\ \A s \in Strategies : ReturnedOk(s) /\ Len(DataRowsOf(SplitLines(outcome[s].output))) = 2

\* What one character of a field becomes in a Markdown cell.
EscapedChar(c) ==
    CASE c = PIPE -> <<BACKSLASH, PIPE>>
      [] c = LF -> <<"<", "b", "r", ">">>
      [] c = CR -> <<>>
      [] OTHER -> <<c>>

\* The field mapped character by character, in order, from index k on.
RECURSIVE CharByCharFrom(_, _)
CharByCharFrom(field, k) ==
    IF k > Len(field) THEN <<>>
    ELSE EscapedChar(field[k]) \o CharByCharFrom(field, k + 1)

CharByChar(field) == CharByCharFrom(field, 1)

\* What follows `before` in text out, provided out starts with `before`.
After(before, out) == SubSeq(out, Len(before) + 1, Len(out))

StartsWith(out, before) ==
    Len(out) >= Len(before) /\ SubSeq(out, 1, Len(before)) = before

\* The cell of column j (counted from 1) of a record: its escaped field, or
\* the empty text when the record has no field there.
CellText(record, j) == IF j <= Len(record) THEN CharByChar(record[j]) ELSE <<>>

\* Where the cell of column j starts in a rendered row: after the leading
\* pipe, each cell before it taking its text, two spaces and a pipe.
RECURSIVE CellOffset(_, _)
CellOffset(record, j) ==
    IF j <= 1 THEN 2
    ELSE CellOffset(record, j - 1) + Len(CellText(record, j - 1)) + 3

\* Text em is the row of the record at the width: a pipe; for every column a
\* space, the cell, a space and a pipe; then one line feed, the only one.
IsRowOf(em, record, width) ==
    /\ Len(em) = CellOffset(record, width + 1)
    /\ em[1] = PIPE
    /\ em[Len(em)] = LF
    /\ {k \in 1..Len(em) : em[k] = LF} = {Len(em)}
    /\ \A j \in 1..width :
          LET o == CellOffset(record, j)
              c == CellText(record, j)
          IN /\ em[o] = SPACE
             /\ SubSeq(em, o + 1, o + Len(c)) = c
             /\ em[o + Len(c) + 1] = SPACE
             /\ em[o + Len(c) + 2] = PIPE

\* C7: for every record and every width, write_table_row and
\* write_table_row_to_writer append a pipe, then for each column index
\* 0..width a space, the escaped field at that index (the empty text when
\* the record has none), a space and a pipe, then exactly one line feed; the
\* two writers append identical bytes.
C7_RowWritersFormat ==
    ret.stage >= 1 =>
        /\ ret.row_string = ret.row_writer
        /\ StartsWith(ret.row_string, args.before)
        /\ IsRowOf(After(args.before, ret.row_string), args.record, args.width)

\* C7 witness: a record of one field holding a pipe was rendered at width 3
\* (two padding cells) after earlier output.
C7_Witness ==
    /\ ret.stage >= 1
    /\ args.record = <<(<<PIPE>>)>>
    /\ args.width = 3
    /\ args.before # <<>>

\* The alignment marker cells.
MarkerCell(alignment) ==
    CASE alignment = "Left" -> <<" ", "-", "-", "-", " ", "|">>
      [] alignment = "Center" -> <<" ", ":", "-", "-", "-", ":", " ", "|">>
      [] alignment = "Right" -> <<" ", "-", "-", "-", ":", " ", "|">>

\* Text em is the header separator of the width and alignment: a pipe, the
\* marker cell width times, one line feed.
IsSeparatorOf(em, width, alignment) ==
    LET m == MarkerCell(alignment) IN
    /\ Len(em) = 2 + width * Len(m)
    /\ em[1] = PIPE
    /\ em[Len(em)] = LF
    /\ \A j \in 0..(width - 1) : SubSeq(em, 2 + j * Len(m), 1 + (j + 1) * Len(m)) = m

\* C8: for every width and alignment, write_header_separator and
\* write_header_separator_to_writer append a pipe, exactly width copies of
\* the alignment marker cell (' --- |' Left, ' :---: |' Center, ' ---: |'
\* Right) and one line feed: as many cells as the data row of that width.
C8_HeaderSeparatorFormat ==
    ret.stage >= 2 =>
        /\ ret.separator_string = ret.separator_writer
        /\ StartsWith(ret.separator_string, args.before)
        /\ IsSeparatorOf(After(args.before, ret.separator_string), args.width, args.alignment)
        /\ CellCount(After(args.before, ret.separator_string)) = args.width

\* C8 witness: the separator of width 2 was written right-aligned.
C8_Witness ==
    /\ ret.stage = 2
    /\ args.width = 2
    /\ args.alignment = "Right"
    /\ Len(args.record) = 2

\* C9: escape_markdown_cell, on every field, returns the field mapped
\* character by character: a pipe becomes backslash pipe, a line feed
\* becomes <br>, a carriage return is dropped, any other character is
\* copied, in order.
C9_EscapeIsCharByChar ==
    ret.stage >= 1 =>
        /\ ret.escaped = CharByChar(args.field)
        /\ ret.other_escaped = CharByChar(args.other)

\* C9 witness: a field holding a pipe, a line feed and a carriage return was
\* escaped.
C9_Witness ==
    /\ ret.stage >= 1
    /\ {PIPE, LF, CR} \subseteq {args.field[k] : k \in 1..Len(args.field)}

\* C10: two distinct fields of equal length that agree wherever one of them
\* holds neither a pipe nor a line feed are escaped to distinct texts; and
\* escaping is not idempotent: escaping an escaped field changes it again
\* exactly when the field holds a pipe.
C10_EscapeKeepsPipesAndLineFeedsApart ==
    /\ (ret.stage >= 1 /\ args.field # args.other /\ PipeLfVariant(args.field, args.other))
          => ret.escaped # ret.other_escaped
    /\ ret.stage = 2 =>
          ((ret.twice # ret.escaped) <=> (\E k \in 1..Len(args.field) : args.field[k] = PIPE))

\* C10 witness: two fields differing in a pipe against a line feed were
\* escaped, and the first was escaped a second time to a different text.
C10_Witness ==
    /\ ret.stage = 2
    /\ args.field # args.other
    /\ PipeLfVariant(args.field, args.other)
    /\ ret.twice # ret.escaped

\* C11: without flexible, when some record's field count differs from the
\* first record's, every entry point (D: with chunk_size >= 1) returns
\* CsvMdError::Csv and the differing record is never rendered; and when the
\* conversion succeeds without flexible, every row has exactly the cells of
\* its own record, none added as padding.
C11_InflexibleMismatchFails ==
    LET yielded == Yielded IN
    ~config.flexible =>
        \A s \in InView :
            (s = "D" => chunk_size >= 1) =>
                LET rows == DataRows(s) IN
                /\ (yielded.failed /\ Returned(s)) => outcome[s].status = "Csv"
                /\ Len(rows) <= Len(yielded.records)
                /\ ReturnedOk(s) =>
                      \A k \in 1..Len(rows) : CellCount(rows[k]) = Len(yielded.records[k])

\* The pieces a conversion hands to its sink for the records, rendered at
\* width w from record k on: each record's row, and the header separator
\* after the first when has_headers is set.
RECURSIVE WritesFrom(_, _, _, _)
WritesFrom(recs, k, w, cfg) ==
    IF k > Len(recs) THEN <<>>
    ELSE (table_row_writes(escape_row(recs[k]), w)
            \o (IF k = 1 /\ cfg.has_headers
                THEN header_separator_writes(w, cfg.header_alignment)
                ELSE <<>>))
         \o WritesFrom(recs, k + 1, w, cfg)

\* The pieces that make a call on the sink: the ones that are not empty.
SinkWrites(recs, w, cfg) == SelectSeq(WritesFrom(recs, 1, w, cfg), LAMBDA piece : piece # <<>>)

\* The pieces put one after the other.
RECURSIVE Concat(_)
Concat(pieces) == IF pieces = <<>> THEN <<>> ELSE Head(pieces) \o Concat(Tail(pieces))

IsPrefix(a, b) == Len(a) <= Len(b) /\ a = SubSeq(b, 1, Len(a))

\* C12: when the reader gives an Err for some record of the input (a field
\* count that differs without flexible, or a byte that is no UTF-8), no
\* entry point (D: with chunk_size >= 1) returns Ok, whatever else fails;
\* what it emitted is at every moment the start of the rendering of the
\* records before the failing one, so neither that record nor one after it
\* is rendered; and csv_to_markdown returns no text.
C12_ReaderFailureAbortsConversion ==
    LET yielded == Yielded IN
    yielded.failed =>
        \A s \in InView :
            (s = "D" => chunk_size >= 1) =>
                /\ ~ReturnedOk(s)
                /\ IsPrefix(Emitted(s), Concat(SinkWrites(yielded.records, Width(s), config)))
                /\ (s = "A" /\ Returned(s)) => outcome[s].output = <<>>

\* C12 witness: with flexible set, the second record holds a byte that is no
\* UTF-8; no call on source or sink fails; the four entry points returned,
\* csv_to_markdown_chunked_streaming having written the first record's row.
C12_Witness ==
    /\ config.flexible
    /\ faults = NoFaults
    /\ Yielded.failed
    /\ Len(Yielded.records) = 1
    /\ chunk_size >= 1
    /\ AllReturned
    /\ outcome["D"].status = "Csv"
    /\ outcome["D"].output # <<>>

\* The read calls a reader freshly built over bytes makes on them to give
\* its first n items.
RECURSIVE ReadsFor(_, _, _, _)
ReadsFor(bytes, r, cfg, n) ==
    IF n = 0 THEN 0
    ELSE LET item == next_record(bytes, r, cfg) IN
         item.reads + (IF item.kind = "record" THEN ReadsFor(bytes, item.rdr, cfg, n - 1) ELSE 0)

\* The record whose rendering makes the sink call numbered k: the first
\* record with at least k calls made once it is rendered (one more than the
\* number of records when k is the flush).
RecordOfCall(recs, k, w, cfg) ==
    LET upto(n) == Len(SinkWrites(SubSeq(recs, 1, n), w, cfg)) IN
    IF k > upto(Len(recs)) THEN Len(recs) + 1
    ELSE CHOOSE n \in 1..Len(recs) : upto(n) >= k /\ upto(n - 1) < k

\* C13: in B, C and D (with chunk_size >= 1), when the sink call numbered k
\* fails and the conversion gets as far as making it (the reader fails on
\* no record and k is at most the flush after the last write; or, in D, k
\* is among the writes for the records before the one the reader fails on),
\* the entry point returns CsvMdError::Io; call k
\* is the last made on the sink, which is not flushed after it; the sink
\* holds exactly the pieces of the k - 1 calls before it; and C's reader has
\* read the source no further than the record being written.
C13_SinkFailureReturnsAtOnce ==
    LET yielded == Yielded
        k == faults.sink
    IN \A s \in InView \cap {"B", "C", "D"} :
         LET w == outcome[s].max_cols
             writes == SinkWrites(yielded.records, w, config)
             calls == IF ~yielded.failed THEN Len(writes) + 1
                      ELSE IF s = "D" THEN Len(writes)
                      ELSE 0
         IN (Returned(s) /\ k >= 1 /\ k <= calls /\ (s = "D" => chunk_size >= 1)) =>
               /\ outcome[s].status = "Io"
               /\ outcome[s].sink_calls = k
               /\ ~outcome[s].flushed
               /\ outcome[s].output = Concat(SubSeq(writes, 1, k - 1))
               /\ s = "C" =>
                     outcome[s].src_reads =
                         (Len(input) + 1)
                             + ReadsFor(input, new_reader(1), config,
                                        RecordOfCall(yielded.records, k, w, config))

\* C13 witness: the third call on the sink fails while the first of two
\* records is written; B, C and D returned CsvMdError::Io, each leaving the
\* two pieces written before on its sink.
C13_Witness ==
    /\ faults.sink = 3
    /\ Len(Yielded.records) = 2
    /\ chunk_size >= 1
    /\ AllReturned
    /\ \A s \in {"B", "C", "D"} :
          /\ outcome[s].status = "Io"
          /\ outcome[s].cause = "sink"
          /\ outcome[s].output = <<PIPE, SPACE>>

\* C14: in every strategy, when the read call numbered k on the source fails
\* and the entry point gets as far as making it, it returns CsvMdError::Io
\* (not CsvMdError::Csv), and call k is the last it makes on the source (the
\* read is not tried again).
C14_SourceFailureIsIo ==
    \A s \in InView :
        (Returned(s) /\ faults.source >= 1 /\ outcome[s].src_reads >= faults.source) =>
            /\ outcome[s].status = "Io"
            /\ outcome[s].src_reads = faults.source

\* The temporary resource an entry point owns while it runs.
Owned(s) ==
    CASE s = "B" -> {"buffer"}
      [] s = "D" -> {"temp_file"}
      [] OTHER -> {}

\* C15: the buffer of B and the temporary file of D are held by the call
\* that made them and by nothing else: while an entry point runs, exactly
\* its own resource is held, and once it has returned, by whatever path (Ok, a
\* failed read, a record the reader refused, a failed seek, a failed write
\* or flush), nothing is held and nothing is left in buffer or file.
C15_TemporaryResourceReleased ==
    /\ held = Owned(Running)
    /\ pc = "idle" => (held = {} /\ buffer = <<>> /\ temp_file = <<>>)
    /\ \A s \in {"A", "C"} : Running = s => (buffer = <<>> /\ temp_file = <<>>)

\* C15 witness: a write to the sink failed in B and in D after both had
\* filled their buffer and file; all four entry points have returned.
C15_Witness ==
    /\ AllReturned
    /\ chunk_size >= 1
    /\ Len(input) >= 2
    /\ outcome["B"].cause = "sink"
    /\ outcome["D"].cause = "sink"
    /\ outcome["D"].output # <<>>
    /\ held = {}

\* Quote characters of the line only open a field, close it, or stand
\* doubled inside a quoted field: walking the line from index p in reader
\* state st, no quote is met inside an unquoted field, a closing quote is
\* followed by a delimiter or the end, and the line ends outside quotes.
RECURSIVE WellQuoted(_, _, _, _)
WellQuoted(line, p, st, delimiter) ==
    IF p > Len(line) THEN st # "InQuotedField"
    ELSE LET c == line[p] IN
      CASE st = "StartField" ->
             WellQuoted(line, p + 1,
                        IF c = QUOTE THEN "InQuotedField"
                        ELSE IF c = delimiter THEN "StartField" ELSE "InField",
                        delimiter)
        [] st = "InField" ->
             /\ c # QUOTE
             /\ WellQuoted(line, p + 1, IF c = delimiter THEN "StartField" ELSE "InField",
                           delimiter)
        [] st = "InQuotedField" ->
             WellQuoted(line, p + 1,
                        IF c = QUOTE THEN "InDoubleEscapedQuote" ELSE "InQuotedField",
                        delimiter)
        [] st = "InDoubleEscapedQuote" ->
             /\ c \in {QUOTE, delimiter}
             /\ WellQuoted(line, p + 1,
                           IF c = QUOTE THEN "InQuotedField" ELSE "StartField", delimiter)

\* C16: for every line that is one record and in which quotes only open and
\* close fields or stand doubled inside a quoted field, count_csv_columns
\* gives the number of fields the reader gives for it: a delimiter between
\* an opening and its closing quote is not counted and a doubled quote does
\* not end the field.
C16_CountEqualsFieldCount ==
    (ret.stage = 1 /\ args.line # <<>>
        /\ WellQuoted(args.line, 1, "StartField", config.delimiter)) =>
        /\ ret.item.kind = "record"
        /\ ret.columns = Len(ret.item.fields)

\* C16 witness: the line of a quoted field holding a delimiter, a delimiter
\* and the plain field a; two columns were counted.
C16_Witness ==
    /\ ret.stage = 1
    /\ args.line = <<QUOTE, ",", QUOTE, ",", "a">>
    /\ ret.columns = 2
    /\ ret.item.fields = <<<<",">>, <<"a">>>>

BeforeSecondPass == {"B_read", "B_pass1", "B_reader2", "C_pass1", "C_seek", "D_copy"}

SecondPass == {"B_pass2", "C_pass2", "D_pass2"}

\* C18: B, C and D make no call on the sink and put no byte on it before
\* their second pass; the second pass starts only once the first read the
\* whole input to its end (B: the buffer holds the input and the first
\* reader reached its end; C: the first reader read the source to its end;
\* D: the read loop reached the end of the source, or chunk_size is 0 and
\* nothing is ever written); and max_cols does not change during the second
\* pass, so not after the first write.
C18_NoWriteBeforeInputConsumed ==
    /\ [](pc \in BeforeSecondPass => (output = <<>> /\ sink_calls = 0))
    /\ [](pc = "B_reader2" =>
             (buffer = input /\ rdr.eof /\ rdr.pos = Len(input) + 1))
    /\ [](pc = "C_seek" =>
             (rdr.eof /\ rdr.pos = Len(input) + 1 /\ src_reads = Len(input) + 1))
    /\ [](pc = "D_pass2" =>
             IF chunk_size >= 1 THEN src_pos = Len(input) + 1 ELSE output = <<>>)
    /\ [][(pc \in SecondPass /\ pc' = pc) => max_cols' = max_cols]_vars

\* C18 witness: B is in its second pass on an input of two records of
\* different widths, the row of the narrower first record written at the
\* width of the second, which is still to be read.
C18_Witness ==
    /\ pc = "B_pass2"
    /\ Len(Yielded.records) = 2
    /\ Len(Yielded.records[1]) = 1
    /\ Len(Yielded.records[2]) = 2
    /\ max_cols = 2
    /\ Len(DataRows("B")) = 1
    /\ CellCount(DataRows("B")[1]) = 2

\* C19: a run of the CLI chooses one entry point, before any byte of the
\* input is read, and keeps it: with --stream and a file the seekable
\* two-pass entry point (C), with --stream and no file the buffered one (B) on
\* stdin, without --stream csv_to_markdown (A); never the chunked one (D);
\* and it calls the entry point chosen at most once and no other.
C19_CliSelectsOneStrategy ==
    /\ [](ret.stage >= 1 =>
            /\ args.stream /\ args.file # "none" => ret.strategy = "C"
            /\ args.stream /\ args.file = "none" =>
                  (ret.strategy = "B" /\ ret.source \in {"stdin", "none"})
            /\ ~args.stream => ret.strategy = "A"
            /\ ret.strategy # "D")
    /\ [](ret.stage <= 1 => (ret.source_reads = 0 /\ ret.called = <<>>))
    /\ [](ret.called \in {<<>>, <<ret.strategy>>})
    /\ [](ret.stage = 2 => ret.called = <<ret.strategy>>)
    /\ [][ret.stage >= 1 => ret'.strategy = ret.strategy]_vars

\* C19 witness: a run with --stream and a file that opens has called the
\* seekable two-pass entry point and returned.
C19_Witness ==
    /\ ret.stage = 3
    /\ args.stream
    /\ args.file = "path"
    /\ ret.called = <<"C">>
    /\ ret.result = "Ok"

\* Call c run alone to its end, in a file system of its own.
RECURSIVE RunAlone(_, _)
RunAlone(c, files) ==
    IF c.pc = "done" THEN c
    ELSE LET n == call_step(c, files) IN RunAlone(n.call, n.files)

Alone(p) ==
    RunAlone(NewCall(args.strategy[p], args.input[p], args.config[p], args.chunk_size[p]),
             <<>>)

\* C20: two conversions run at once on different inputs, their steps
\* interleaved in any order: each ends with the status, the max_cols and the
\* output it ends with when run alone, and the temporary file of a call in
\* its second pass holds that call's input and nothing of the other's.
C20_ConcurrentCallsIndependent ==
    \A p \in Calls :
        LET c == ret.call[p] IN
        /\ c.pc = "done" =>
              LET alone == Alone(p) IN
              /\ c.status = alone.status
              /\ c.max_cols = alone.max_cols
              /\ c.output = alone.output
        /\ (c.strategy = "D" /\ c.pc = "pass2") => ret.files[c.file] = c.input

\* C20 witness: two chunked calls on different inputs, each of two bytes,
\* have both ended, the second having started while the first was copying.
C20_Witness ==
    /\ \A p \in Calls :
          /\ ret.call[p].strategy = "D"
          /\ ret.call[p].pc = "done"
          /\ Len(ret.call[p].input) = 2
          /\ ret.call[p].output # <<>>
    /\ ret.call[1].output # ret.call[2].output
    /\ ret.call[1].file # ret.call[2].file

\* A field of the record holds a line feed (so it was quoted in the input).
HoldsLineFeed(record) ==
    \E j \in 1..Len(record) : \E k \in 1..Len(record[j]) : record[j][k] = LF

\* C21: in csv_to_markdown_chunked_streaming (chunk_size >= 1), on an input
\* that is one record with a quoted field holding a line feed, the estimate
\* with which the second pass begins equals the record's field count: the
\* delimiters inside the quoted field, on whatever line, are not counted and
\* those after the closing quote are.
C21_EstimatorKeepsQuoteStateAcrossLines ==
    (pc = "D_pass2" /\ chunk_size >= 1) =>
        LET yielded == Yielded IN
        (~yielded.failed /\ Len(yielded.records) = 1 /\ HoldsLineFeed(yielded.records[1]))
            => max_cols = Len(yielded.records[1])

\* C22: csv_to_markdown (A), csv_to_markdown_streaming (B) and
\* csv_to_markdown_two_pass_streaming (C), the source at its start and the
\* same in both passes, return the same Result variant and emit
\* byte-identical output for every input and Config; nothing is emitted for
\* an input the reader fails on, and otherwise every emitted line, the rows
\* before the widest record among them, has as many cells as the widest
\* record has fields.
C22_BufferedAndTwoPassAgree ==
    LET yielded == Yielded
        widest == TrueMaxCols
    IN \A s \in InView \cap {"A", "B", "C"} :
          /\ Returned(s) => /\ outcome[s].status = outcome["A"].status
                            /\ outcome[s].output = outcome["A"].output
          /\ yielded.failed => Emitted(s) = <<>>
          /\ LET ls == EmittedLines(s) IN
             \A k \in 1..Len(ls) : CellCount(ls[k]) = widest

\* C22 witness: a ragged input whose first record is narrower than a later
\* one went through A, B and C, and each emitted its rows.
C22_Witness ==
    /\ Len(Yielded.records) >= 2
    /\ Len(Yielded.records[1]) < Len(Yielded.records[2])
    /\ \A s \in {"A", "B", "C"} : ReturnedOk(s) /\ Len(SplitLines(outcome[s].output)) >= 2
    /\ pc = "idle"
    /\ ~Returned("D")

\* C23: with has_headers false, two runs of the same entry point on the
\* same input whose Configs differ in header_alignment only end with the
\* same Result variant and identical output, and so far as both have got
\* neither has emitted a byte the other has not.
C23_AlignmentUnusedWithoutHeaders ==
    LET one == ret.call[1]
        two == ret.call[2]
    IN ~one.config.has_headers =>
          /\ IsPrefix(one.output, two.output) \/ IsPrefix(two.output, one.output)
          /\ (one.pc = "done" /\ two.pc = "done") =>
                (one.output = two.output /\ one.status = two.status)

\* C23 witness: without has_headers, the two runs of the chunked entry point
\* on an input of one record with two fields have ended, each with the row
\* emitted, one run with Left and the other with Center.
C23_Witness ==
    /\ ~ret.call[1].config.has_headers
    /\ ret.call[1].config.header_alignment = "Left"
    /\ ret.call[2].config.header_alignment = "Center"
    /\ \A p \in Calls :
          /\ ret.call[p].strategy = "D"
          /\ ret.call[p].pc = "done"
          /\ ret.call[p].max_cols = 2
          /\ Len(SplitLines(ret.call[p].output)) = 1

\* C24: when stdin is no terminal, the first read call reads all of stdin
\* in place (one read_to_end, within the call), and no thread is spawned, no
\* 2-second wait is made and the waiting message is not printed; the message
\* is printed at most once in a run, and only when stdin is a terminal and
\* try_recv gave Empty when the 2-second wait ended.
C24_PipedStdinReadInPlace ==
    /\ ~args.is_terminal =>
          /\ ret.pc = "idle"
          /\ ret.spawned = 0 /\ ret.thread = "none"
          /\ ret.slept = 0
          /\ ret.messages = 0
          /\ ret.stdin_reads = (IF ret.reads >= 1 THEN 1 ELSE 0)
          /\ ret.init = "Ok" => ret.buffer = args.content
    /\ ret.messages <= 1
    /\ ret.messages = 1 => (args.is_terminal /\ ret.slept = 1 /\ ret.found_empty)
    /\ (ret.slept = 1 /\ ~ret.found_empty) => ret.messages = 0

\* C24 witness: stdin is no terminal and holds two bytes, and the reads made
\* have returned them all.
C24_Witness ==
    /\ ~args.is_terminal
    /\ Len(args.content) = 2
    /\ ret.reads >= 2
    /\ ret.delivered = args.content

\* The records the first pass of csv_to_markdown_two_pass_streaming counts:
\* those the reader yields from the position the source is handed over at.
CountedByFirstPass == records_from(input, new_reader(src_start), config, <<>>)

\* C25: in csv_to_markdown_two_pass_streaming, at whatever position the
\* source is handed over, the records the second pass renders are the
\* records the first pass counted, and the record about to be rendered has
\* no more fields than max_cols.
C25_SecondPassRendersWhatWasCounted ==
    pc = "C_pass2" =>
        /\ Yielded.records = CountedByFirstPass.records
        /\ LET r == next_record(input, rdr, config) IN
           r.kind = "record" => Len(r.fields) <= max_cols

\* The text lines of bytes, as the estimator takes them.
SourceLines(bytes) == lines(from_utf8_lossy(bytes))

\* C26: in csv_to_markdown_chunked_streaming, max_cols and the output do not
\* depend on how the input is split into reads.  For two runs on the same
\* input with chunk sizes >= 1 that differ: the carried partial line is
\* empty after a chunk that ends with a line terminator; the estimate with
\* which the second pass begins is what counting each line of the source
\* once gives; and the two runs end with the same max_cols and identical
\* output.
C26_ChunkingDoesNotMatter ==
    LET one == ret.call[1]
        two == ret.call[2]
    IN /\ \A p \in Calls :
             LET c == ret.call[p] IN
             /\ (c.pc = "copy" /\ c.src_pos > 1 /\ is_term(c.input[c.src_pos - 1]))
                    => c.partial_line = <<>>
             /\ c.pc = "pass2" =>
                    c.max_cols = count_lines(SourceLines(c.input), 0, c.config.delimiter)
       /\ (one.pc = "done" /\ two.pc = "done") =>
             (one.max_cols = two.max_cols /\ one.output = two.output)

\* C27: in csv_to_markdown_streaming (B) and
\* csv_to_markdown_two_pass_streaming (C), on a source that is the same in
\* both passes, the second pass never comes to a record the reader fails
\* on, and an entry point that returned because of such a record has made
\* no call on the sink and written no byte: every failure of the reader on a
\* record is raised in the first pass.
C27_RecordFailuresBeforeAnyWrite ==
    /\ pc \in {"B_pass2", "C_pass2"} =>
          next_record(SecondPassBytes, rdr, config).kind # "error"
    /\ \A s \in InView \cap {"B", "C"} :
          (Returned(s) /\ outcome[s].cause = "record") =>
              (outcome[s].output = <<>> /\ outcome[s].sink_calls = 0)

\* C28: csv_to_markdown_chunked_streaming called with chunk_size = 0 leaves
\* its read loop at the first read and returns Ok with nothing written to
\* the sink and nothing copied to the temporary file, whatever the input
\* holds; with chunk_size >= 1 the read loop is left exactly by a read at the
\* end of the source (one that returns 0 bytes), and it is left in the end.
C28_ReadLoopEndsAtEmptyRead ==
    /\ [](chunk_size = 0 =>
            /\ (pc = "D_copy" => (src_reads = 0 /\ temp_file = <<>>))
            /\ (pc = "D_pass2" => (src_reads = 1 /\ temp_file = <<>> /\ output = <<>>))
            /\ (Returned("D") => (ReturnedOk("D") /\ outcome["D"].output = <<>>
                                   /\ outcome["D"].src_reads = 1)))
    /\ [][(pc = "D_copy" /\ pc' = "D_pass2" /\ chunk_size >= 1)
              => (src_pos = Len(input) + 1 /\ src_pos' = src_pos)]_vars
    /\ [][(pc = "D_copy" /\ chunk_size >= 1 /\ src_pos = Len(input) + 1)
              => pc' = "D_pass2"]_vars
    /\ (pc = "D_copy" ~> pc = "D_pass2")

\* C28 witness: csv_to_markdown_chunked_streaming returned from a call with
\* chunk_size = 0 on an input of two records.
C28_Witness ==
    /\ Len(Yielded.records) = 2
    /\ pc = "idle"
    /\ Returned("D")
    /\ chunk_size = 0

\* What is asked of every state of an InteractiveStdin whose
\* initialize_if_needed returned Ok: position is within the buffer, stdin
\* was read once, the bytes returned so far are the first position bytes of
\* the buffer, in order, and they are all of stdin once a read into a
\* non-empty buf returned Ok(0).
StdinDelivery ==
    /\ ret.stdin_reads <= 1
    /\ ret.init = "Ok" =>
          /\ ret.position <= Len(ret.buffer)
          /\ ret.buffer = args.content
          /\ ret.delivered = SubSeq(ret.buffer, 1, ret.position)
          /\ ret.at_end => ret.delivered = args.content

\* A read call returns in this step.
ReadReturns == ret'.reads = ret.reads + 1

\* C29 as stated: for any sequence of read calls on an InteractiveStdin whose
\* initialization succeeded, position never exceeds buffer.len(), stdin is
\* read at most once, the bytes returned are the buffered content, each byte
\* once and in order, and once a read returned Ok(0) every later read
\* returns Ok(0).
C29_ZeroIsFinal ==
    /\ []StdinDelivery
    /\ [][(ret.init = "Ok" /\ ret.last.kind = "Ok" /\ ret.last.n = 0 /\ ReadReturns)
              => (ret'.last.kind = "Ok" /\ ret'.last.n = 0)]_vars

\* C29 amended: the same, with Ok(0) final only once it was returned for a
\* non-empty buf; a read into an empty buf returns Ok(0) wherever the
\* position is, and the reads after it go on from there.
C29_ZeroIsFinalForNonEmptyBuf ==
    /\ []StdinDelivery
    /\ [][(ret.init = "Ok" /\ ret.at_end /\ ReadReturns)
              => (ret'.last.kind = "Ok" /\ ret'.last.n = 0)]_vars
    /\ [][(ret.init = "Ok" /\ ReadReturns /\ ret'.last.kind = "Ok" /\ ret'.last.n = 0)
              => (ret'.last.buf_len = 0 \/ ret'.position = Len(ret'.buffer))]_vars

\* C29 witness: on a terminal, stdin's two bytes came after the 2-second
\* wait; a read returned the first byte, a read into a non-empty buf the
\* second, and a third read returned Ok(0).
C29_Witness ==
    /\ args.is_terminal
    /\ ret.init = "Ok"
    /\ ret.found_empty
    /\ Len(args.content) = 2
    /\ args.content[1] # args.content[2]
    /\ ret.delivered = args.content
    /\ ret.reads = 3
    /\ ret.at_end

\* C30: on a terminal, once the thread has sent its result, the read call
\* under way gets it in the end, and initialize_if_needed returns with
\* exactly what read_to_end gave (Ok with the bytes of stdin, or its Err),
\* whether the result was sent before the 2-second wait ended or after; no
\* try_recv of the main thread gives Disconnected; and initialize_if_needed
\* does not return while the thread has sent nothing.
C30_SentResultIsReturned ==
    /\ ((args.is_terminal /\ ret.thread = "done") ~> ret.init # "none")
    /\ [](args.is_terminal /\ ret.init # "none" =>
             /\ ret.thread = "done"
             /\ ret.init = (IF args.fails THEN "Err" ELSE "Ok")
             /\ ret.init = "Ok" => ret.buffer = args.content
             /\ ret.pc = "idle")
    /\ [](ret.pc \in {"sleep", "spinner"} =>
             (ret.init = "none" /\ (ret.thread = "reading" <=> ret.channel = <<>>)))
    /\ []~ret.disconnected

\* C30 witness: on a terminal, read_to_end failed after the 2-second wait
\* had ended; the waiting message was printed and the read call returned the
\* Err.
C30_Witness ==
    /\ args.is_terminal
    /\ args.fails
    /\ ret.found_empty
    /\ ret.messages = 1
    /\ ret.thread = "done"
    /\ ret.init = "Err"
    /\ ret.last.kind = "Err"

====
